---------------------------- MODULE Spec2Model ----------------------------
(***************************************************************************)
(* Entity matching policy of potion-matching: the three disambiguators     *)
(* (EntityDisambiguator, HybridEntityDisambiguator,                        *)
(* ImprovedEntityDisambiguator) as a state machine over a caller-owned     *)
(* entity list, its embedding index, and the values the last search        *)
(* returned.                                                               *)
(*                                                                         *)
(* Text is a sequence of one-character strings, so that lower(), split(),  *)
(* strip(), re.split() and difflib's SequenceMatcher are computed the way  *)
(* Python computes them.  A float score is an exact fraction <<n, d>> in   *)
(* lowest terms with d > 0.                                                *)
(***************************************************************************)
EXTENDS Integers, Sequences, FiniteSets, TLC

(***************************************************************************)
(* Characters and Python's str methods                                     *)
(***************************************************************************)
LowerLetters ==
  <<"a","b","c","d","e","f","g","h","i","j","k","l","m",
    "n","o","p","q","r","s","t","u","v","w","x","y","z">>

UpperLetters ==
  <<"A","B","C","D","E","F","G","H","I","J","K","L","M",
    "N","O","P","Q","R","S","T","U","V","W","X","Y","Z">>

\* Every character of the model's texts; a character's code is its position.
Alphabet == <<" ", ".", "-">> \o LowerLetters \o UpperLetters

ToLowerTable ==
  [c \in {Alphabet[i] : i \in 1..Len(Alphabet)} |->
     IF \E i \in 1..26 : UpperLetters[i] = c
       THEN LowerLetters[CHOOSE i \in 1..26 : UpperLetters[i] = c] ELSE c]

ToUpperTable ==
  [c \in {Alphabet[i] : i \in 1..Len(Alphabet)} |->
     IF \E i \in 1..26 : LowerLetters[i] = c
       THEN UpperLetters[CHOOSE i \in 1..26 : LowerLetters[i] = c] ELSE c]

CharCodeTable ==
  [c \in {Alphabet[i] : i \in 1..Len(Alphabet)} |->
     CHOOSE i \in 1..Len(Alphabet) : Alphabet[i] = c]

IsUpperChar(c) == \E i \in 1..26 : UpperLetters[i] = c
IsLowerChar(c) == \E i \in 1..26 : LowerLetters[i] = c
IsSpace(c) == c = " "

\* str.lower() and str.upper()
Lower(s) == [i \in 1..Len(s) |-> ToLowerTable[s[i]]]
Upper(s) == [i \in 1..Len(s) |-> ToUpperTable[s[i]]]

\* str.islower(): some cased character, and no upper-case one
IsLowerStr(s) ==
  /\ \E i \in 1..Len(s) : IsLowerChar(s[i])
  /\ \A i \in 1..Len(s) : ~IsUpperChar(s[i])

\* str.strip()
RECURSIVE LStrip(_)
LStrip(s) == IF s # <<>> /\ IsSpace(Head(s)) THEN LStrip(Tail(s)) ELSE s

RECURSIVE RStrip(_)
RStrip(s) ==
  IF s # <<>> /\ IsSpace(s[Len(s)]) THEN RStrip(SubSeq(s, 1, Len(s) - 1)) ELSE s

Strip(s) == RStrip(LStrip(s))

\* str.split(): the maximal runs of non-whitespace characters, in order
RECURSIVE SplitFrom(_, _, _)
SplitFrom(s, i, word) ==
  IF i > Len(s)
    THEN (IF word = <<>> THEN <<>> ELSE <<word>>)
    ELSE IF IsSpace(s[i])
      THEN (IF word = <<>> THEN <<>> ELSE <<word>>) \o SplitFrom(s, i + 1, <<>>)
      ELSE SplitFrom(s, i + 1, Append(word, s[i]))

Split(s) == SplitFrom(s, 1, <<>>)

\* ' '.join(words)
RECURSIVE JoinSpace(_)
JoinSpace(words) ==
  IF words = <<>> THEN <<>>
  ELSE IF Len(words) = 1 THEN words[1]
  ELSE words[1] \o <<" ">> \o JoinSpace(Tail(words))

\* s.endswith('.')
EndsWithDot(s) == s # <<>> /\ s[Len(s)] = "."

\* needle in hay (substring test)
Contains(hay, needle) ==
  \E i \in 1..(Len(hay) - Len(needle) + 1) :
     SubSeq(hay, i, i + Len(needle) - 1) = needle

(***************************************************************************)
(* Scores: exact fractions                                                 *)
(***************************************************************************)
RECURSIVE GCD(_, _)
GCD(a, b) == IF b = 0 THEN a ELSE GCD(b, a % b)

Abs(n) == IF n < 0 THEN -n ELSE n

\* n/d in lowest terms, d > 0
Rat(n, d) ==
  LET g == GCD(Abs(n), d) IN IF n = 0 THEN <<0, 1>> ELSE <<n \div g, d \div g>>

\* The products are taken after the common factors are divided out
RatMul(x, y) ==
  LET a == Rat(x[1], y[2])
      b == Rat(y[1], x[2])
  IN Rat(a[1] * b[1], a[2] * b[2])
RatSub(x, y) ==
  LET g == GCD(x[2], y[2])
  IN Rat(x[1] * (y[2] \div g) - y[1] * (x[2] \div g), (x[2] \div g) * y[2])
RatGE(x, y) ==
  LET g == GCD(x[2], y[2]) IN x[1] * (y[2] \div g) >= y[1] * (x[2] \div g)
RatGT(x, y) ==
  LET g == GCD(x[2], y[2]) IN x[1] * (y[2] \div g) > y[1] * (x[2] \div g)
RatMax(x, y) == IF RatGT(y, x) THEN y ELSE x

(***************************************************************************)
(* difflib.SequenceMatcher(None, a, b).ratio(): no junk test, and the      *)
(* popularity heuristic applies only to texts of 200 characters or more.   *)
(***************************************************************************)
\* Length of the common run of a from i and b from j inside a[..ahi], b[..bhi]
RECURSIVE RunLen(_, _, _, _, _, _)
RunLen(a, b, i, j, ahi, bhi) ==
  IF i > ahi \/ j > bhi \/ a[i] # b[j] THEN 0
  ELSE 1 + RunLen(a, b, i + 1, j + 1, ahi, bhi)

\* find_longest_match: <<i, j, k>> with a[i..i+k-1] = b[j..j+k-1], k maximal,
\* i minimal among those, j minimal among those for that i; k = 0 if none
FindLongestMatch(a, b, alo, ahi, blo, bhi) ==
  LET runs == {<<i, j, RunLen(a, b, i, j, ahi, bhi)>> :
                 i \in alo..ahi, j \in blo..bhi}
      sizes == {r[3] : r \in runs}
      k == CHOOSE x \in sizes : \A y \in sizes : x >= y
      starts == {r[1] : r \in {o \in runs : o[3] = k}}
      i0 == CHOOSE x \in starts : \A y \in starts : x <= y
      others == {r[2] : r \in {o \in runs : o[3] = k /\ o[1] = i0}}
      j0 == CHOOSE x \in others : \A y \in others : x <= y
  IN IF runs = {} THEN <<alo, blo, 0>> ELSE <<i0, j0, k>>

\* get_matching_blocks: the total size of the blocks found by taking the
\* longest match m and recursing on the pieces to its left and to its right
RECURSIVE MatchingSize(_, _, _, _, _, _)
BlocksAround(a, b, alo, ahi, blo, bhi, m) ==
  IF m[3] = 0 THEN 0
  ELSE m[3]
       + MatchingSize(a, b, alo, m[1] - 1, blo, m[2] - 1)
       + MatchingSize(a, b, m[1] + m[3], ahi, m[2] + m[3], bhi)

MatchingSize(a, b, alo, ahi, blo, bhi) ==
  IF alo > ahi \/ blo > bhi THEN 0
  ELSE BlocksAround(a, b, alo, ahi, blo, bhi,
                    FindLongestMatch(a, b, alo, ahi, blo, bhi))

\* ratio(): 2.0 * matches / (len(a) + len(b)), and 1.0 for two empty texts
Ratio(a, b) ==
  IF Len(a) + Len(b) = 0 THEN <<1, 1>>
  ELSE Rat(2 * MatchingSize(a, b, 1, Len(a), 1, Len(b)), Len(a) + Len(b))

(***************************************************************************)
(* The texts a caller supplies: entity descriptors and queries              *)
(***************************************************************************)
DescriptorPool ==
  << \* 'John Smith - Eng'
     <<"J","o","h","n"," ","S","m","i","t","h"," ","-"," ","E","n","g">>,
     \* 'John M. Smith - DS'
     <<"J","o","h","n"," ","M","."," ","S","m","i","t","h"," ","-"," ","D","S">>,
     \* 'John Michael Smith'
     <<"J","o","h","n"," ","M","i","c","h","a","e","l"," ","S","m","i","t","h">>,
     \* 'Madonna'
     <<"M","a","d","o","n","n","a">>,
     \* 'J Smith - X'
     <<"J"," ","S","m","i","t","h"," ","-"," ","X">>,
     \* 'Joan Of Arc - Saint'
     <<"J","o","a","n"," ","O","f"," ","A","r","c"," ","-"," ","S","a","i","n","t">>,
     \* 'John  Smith - X'
     <<"J","o","h","n"," "," ","S","m","i","t","h"," ","-"," ","X">>,
     \* 'Christopher Robinson'
     <<"C","h","r","i","s","t","o","p","h","e","r"," ","R","o","b","i","n","s","o","n">> >>

QueryPool ==
  << \* 'John Smith'
     <<"J","o","h","n"," ","S","m","i","t","h">>,
     \* 'john smith'
     <<"j","o","h","n"," ","s","m","i","t","h">>,
     \* 'JOHN SMITH'
     <<"J","O","H","N"," ","S","M","I","T","H">>,
     \* 'John'
     <<"J","o","h","n">>,
     \* 'J'
     <<"J">>,
     \* 'Madonna'
     <<"M","a","d","o","n","n","a">>,
     \* 'joan of arc'
     <<"j","o","a","n"," ","o","f"," ","a","r","c">>,
     \* 'Christopher Robinxyz'
     <<"C","h","r","i","s","t","o","p","h","e","r"," ","R","o","b","i","n","x","y","z">>,
     \* 'Jon Smyth'
     <<"J","o","n"," ","S","m","y","t","h">>,
     \* 'Jhon Smith'
     <<"J","h","o","n"," ","S","m","i","t","h">>,
     \* 'john smith - eng'
     <<"j","o","h","n"," ","s","m","i","t","h"," ","-"," ","e","n","g">>,
     \* 'John M. Smith'
     <<"J","o","h","n"," ","M","."," ","S","m","i","t","h">> >>


(***************************************************************************)
(* The embedder (model2vec's StaticModel) is outside the repository: a      *)
(* deterministic map from a text to a vector.  It is one of a small family  *)
(* of maps into vectors of length 5 (or 0), chosen by `model`; cosines of   *)
(* such vectors are the fractions 0, 3/5, 4/5, 24/25 and 1.                 *)
(***************************************************************************)
Models == {"cased", "uncased"}

VectorTable == << <<5, 0>>, <<4, 3>>, <<3, 4>>, <<0, 5>>, <<0, 0>> >>

RECURSIVE CodeSum(_)
CodeSum(text) ==
  IF text = <<>> THEN 0 ELSE CharCodeTable[Head(text)] + CodeSum(Tail(text))

\* self.model.encode([text])[0]
encode(m, text) ==
  VectorTable[(CodeSum(IF m = "cased" THEN text ELSE Lower(text))
               % Len(VectorTable)) + 1]

\* sklearn's cosine_similarity of two vectors; a zero vector gives 0
cosine_similarity(u, v) ==
  IF u = <<0, 0>> \/ v = <<0, 0>> THEN <<0, 1>>
  ELSE Rat(u[1] * v[1] + u[2] * v[2], 25)

(***************************************************************************)
(* Text helpers of the disambiguators                                      *)
(***************************************************************************)
\* preprocess_text: lower-case and collapse whitespace
preprocess_text(text) == JoinSpace(Split(Lower(text)))

\* A match of the pattern ' - | at | of ' starting at position i
SeparatorAt(s, i) ==
  \/ i + 2 <= Len(s) /\ SubSeq(s, i, i + 2) = <<" ", "-", " ">>
  \/ i + 3 <= Len(s) /\ SubSeq(s, i, i + 3) = <<" ", "a", "t", " ">>
  \/ i + 3 <= Len(s) /\ SubSeq(s, i, i + 3) = <<" ", "o", "f", " ">>

\* extract_name: re.split(r' - | at | of ', descriptor)[0].strip()
extract_name(descriptor) ==
  LET hits == {i \in 1..Len(descriptor) : SeparatorAt(descriptor, i)}
      first == CHOOSE i \in hits : \A j \in hits : i <= j
  IN IF hits = {} THEN Strip(descriptor)
     ELSE Strip(SubSeq(descriptor, 1, first - 1))

\* extract_name_parts
extract_name_parts(descriptor) ==
  LET full_name == extract_name(descriptor)
      parts == Split(full_name)
  IN [full     |-> full_name,
      first    |-> IF parts # <<>> THEN parts[1] ELSE <<>>,
      last     |-> IF Len(parts) > 1 THEN parts[Len(parts)] ELSE <<>>,
      middle   |-> IF Len(parts) > 2 THEN SubSeq(parts, 2, Len(parts) - 1)
                                     ELSE <<>>,
      parts    |-> parts,
      initials |-> [i \in 1..Len(parts) |-> ToUpperTable[parts[i][1]]]]

\* Ratio on the lower-cased queries and entity names of the pools, computed once
RatioTable ==
  [a \in {Lower(QueryPool[i]) : i \in 1..Len(QueryPool)},
   b \in {Lower(extract_name(DescriptorPool[i])) : i \in 1..Len(DescriptorPool)}
     |-> Ratio(a, b)]

\* fuzzy_match_score: SequenceMatcher(None, s1.lower(), s2.lower()).ratio()
fuzzy_match_score(s1, s2) ==
  LET a == Lower(s1)
      b == Lower(s2)
  IN IF <<a, b>> \in DOMAIN RatioTable THEN RatioTable[a, b] ELSE Ratio(a, b)

\* [m.lower() for m in tokens]
LowerAll(tokens) == [i \in 1..Len(tokens) |-> Lower(tokens[i])]

\* all(len(m) == 2 and m.endswith('.') for m in tokens)
AllInitialForms(tokens) ==
  \A i \in 1..Len(tokens) : Len(tokens[i]) = 2 /\ EndsWithDot(tokens[i])

\* [m[0].upper() for m in tokens]
FirstLettersUpper(tokens) ==
  [i \in 1..Len(tokens) |-> ToUpperTable[tokens[i][1]]]

NoMatch == [is_match |-> FALSE, score |-> <<0, 1>>, match_type |-> ""]

\* check_name_match_with_initials
check_name_match_with_initials(query_parts, entity_parts) ==
  LET query_tokens == query_parts.parts
      entity_tokens == entity_parts.parts
      query_first == Lower(query_tokens[1])
      query_last == Lower(query_tokens[Len(query_tokens)])
      entity_first == Lower(entity_parts.first)
      entity_last == Lower(entity_parts.last)
      query_middle == LowerAll(SubSeq(query_tokens, 2, Len(query_tokens) - 1))
      entity_middle == LowerAll(entity_parts.middle)
  IN IF Lower(query_parts.full) = Lower(entity_parts.full)
       THEN [is_match |-> TRUE, score |-> <<1, 1>>,
             match_type |-> "exact_full_name"]
     ELSE IF Len(query_tokens) >= 2
             /\ query_first = entity_first /\ query_last = entity_last
       THEN IF Len(query_tokens) = 2 /\ Len(entity_tokens) > 2
              THEN [is_match |-> TRUE, score |-> <<19, 20>>,
                    match_type |-> "name_without_middle"]
            ELSE IF Len(query_tokens) > 2
              THEN IF query_middle = entity_middle
                     THEN [is_match |-> TRUE, score |-> <<49, 50>>,
                           match_type |-> "name_with_middle"]
                   ELSE IF AllInitialForms(query_middle)
                           /\ FirstLettersUpper(query_middle)
                                = FirstLettersUpper(entity_middle)
                     THEN [is_match |-> TRUE, score |-> <<24, 25>>,
                           match_type |-> "name_with_middle_initial"]
                   ELSE IF AllInitialForms(entity_middle)
                           /\ FirstLettersUpper(entity_middle)
                                = FirstLettersUpper(query_middle)
                     THEN [is_match |-> TRUE, score |-> <<24, 25>>,
                           match_type |-> "name_matches_middle_initial"]
                   ELSE NoMatch
            ELSE NoMatch
     ELSE NoMatch

\* word[0].isupper() or word.islower()
NameLikeWord(word) == IsUpperChar(word[1]) \/ IsLowerStr(word)

\* A classification that would send a query without words to the partial-name branch
detect_query_type_lenient(query) ==
  LET words == Split(query)
  IN IF Len(words) <= 1 THEN "partial_name"
     ELSE IF Len(words) = 2 /\ \A i \in 1..2 : NameLikeWord(words[i])
       THEN "full_name"
     ELSE "semantic"

\* detect_query_type
detect_query_type(query) ==
  LET words == Split(query)
  IN IF Len(words) = 1 THEN "partial_name"
     ELSE IF Len(words) = 2 /\ \A i \in 1..2 : NameLikeWord(words[i])
       THEN "full_name"
     ELSE "semantic"

(***************************************************************************)
(* Result rows and sorting                                                 *)
(***************************************************************************)
\* {**entity, key: value, ...}: a copy of the entity; the new keys win
Extend(entity, extra) ==
  [key \in DOMAIN entity \cup DOMAIN extra |->
     IF key \in DOMAIN extra THEN extra[key] ELSE entity[key]]

\* list.sort(key=lambda x: x["similarity"], reverse=True): stable, so rows of
\* equal similarity keep the order they were appended in
RECURSIVE InsertBySimilarity(_, _)
InsertBySimilarity(row, sorted) ==
  IF sorted = <<>> THEN <<row>>
  ELSE IF RatGE(Head(sorted).similarity, row.similarity)
    THEN <<Head(sorted)>> \o InsertBySimilarity(row, Tail(sorted))
  ELSE <<row>> \o sorted

RECURSIVE SortInto(_, _)
SortInto(rows, sorted) ==
  IF rows = <<>> THEN sorted
  ELSE SortInto(Tail(rows), InsertBySimilarity(Head(rows), sorted))

\* A sort that would put a row before the rows of equal similarity already placed
RECURSIVE InsertBeforeEqual(_, _)
InsertBeforeEqual(row, sorted) ==
  IF sorted = <<>> THEN <<row>>
  ELSE IF RatGT(Head(sorted).similarity, row.similarity)
    THEN <<Head(sorted)>> \o InsertBeforeEqual(row, Tail(sorted))
  ELSE <<row>> \o sorted

RECURSIVE SortIntoUnstable(_, _)
SortIntoUnstable(rows, sorted) ==
  IF rows = <<>> THEN sorted
  ELSE SortIntoUnstable(Tail(rows), InsertBeforeEqual(Head(rows), sorted))

SortUnstable(rows) == SortIntoUnstable(rows, <<>>)

SortBySimilarityDesc(rows) == SortInto(rows, <<>>)

\* The rows of a list of [keep, row] records whose keep is true, in order
RECURSIVE KeptRows(_)
KeptRows(marked) ==
  IF marked = <<>> THEN <<>>
  ELSE (IF Head(marked).keep THEN <<Head(marked).row>> ELSE <<>>)
       \o KeptRows(Tail(marked))

(***************************************************************************)
(* ImprovedEntityDisambiguator                                             *)
(***************************************************************************)
\* create_entity_embeddings
create_entity_embeddings(m, ents) ==
  LET n == Len(ents)
      entity_names == [i \in 1..n |-> extract_name_parts(ents[i].descriptor)]
  IN [original         |-> [i \in 1..n |-> encode(m, ents[i].descriptor)],
      normalized       |-> [i \in 1..n |->
                              encode(m, preprocess_text(ents[i].descriptor))],
      names            |-> [i \in 1..n |-> encode(m, entity_names[i].full)],
      normalized_names |-> [i \in 1..n |->
                              encode(m, preprocess_text(entity_names[i].full))],
      first_names      |-> [i \in 1..n |-> encode(m, entity_names[i].first)],
      last_names       |-> [i \in 1..n |->
                              encode(m, IF entity_names[i].last # <<>>
                                          THEN entity_names[i].last
                                          ELSE entity_names[i].first)],
      name_parts       |-> entity_names]

\* search, lines 168-182: a one-letter query against the initials; the loop
\* stops at the first initial that equals it
initial_score(query_upper, initials) ==
  LET hits == {i \in 1..Len(initials) : query_upper = initials[i]}
      i == CHOOSE h \in hits : \A o \in hits : h <= o
  IN IF hits = {} THEN [score |-> <<0, 1>>, match_type |-> ""]
     ELSE IF i = 1 THEN [score |-> <<17, 20>>, match_type |-> "first_initial"]
     ELSE IF i = Len(initials)
       THEN [score |-> <<17, 20>>, match_type |-> "last_initial"]
     ELSE [score |-> <<4, 5>>, match_type |-> "middle_initial"]

\* A fallback that would take the smaller of the two cosines
semantic_name_score_min(query_emb, first_emb, last_emb) ==
  [score |-> RatMul(IF RatGE(cosine_similarity(query_emb, first_emb),
                             cosine_similarity(query_emb, last_emb))
                      THEN cosine_similarity(query_emb, last_emb)
                      ELSE cosine_similarity(query_emb, first_emb), <<7, 10>>),
   match_type |-> "semantic_name"]

\* search, lines 196-207: 0.7 times the larger cosine to the first and last name
semantic_name_score(query_emb, first_emb, last_emb) ==
  [score |-> RatMul(RatMax(cosine_similarity(query_emb, first_emb),
                           cosine_similarity(query_emb, last_emb)), <<7, 10>>),
   match_type |-> "semantic_name"]

\* A partial-name branch that would rate a first-name match like any other part
partial_name_score_flat(m, query, name_parts, first_emb, last_emb) ==
  IF Len(query) = 1
    THEN initial_score(Upper(query)[1], name_parts.initials)
  ELSE IF \E k \in 1..Len(name_parts.parts) :
             Lower(query) = Lower(name_parts.parts[k])
    THEN [score |-> <<9, 10>>, match_type |-> "exact_name_part"]
  ELSE semantic_name_score(encode(m, query), first_emb, last_emb)

\* search, lines 167-207: the score and label of one entity for a one-word query
partial_name_score(m, query, name_parts, first_emb, last_emb) ==
  IF Len(query) = 1
    THEN initial_score(Upper(query)[1], name_parts.initials)
  ELSE IF Lower(query) = Lower(name_parts.first)
    THEN [score |-> <<19, 20>>, match_type |-> "exact_first_name"]
  ELSE IF Lower(query) = Lower(name_parts.last)
    THEN [score |-> <<19, 20>>, match_type |-> "exact_last_name"]
  ELSE IF \E k \in 1..Len(name_parts.parts) :
             Lower(query) = Lower(name_parts.parts[k])
    THEN [score |-> <<9, 10>>, match_type |-> "exact_name_part"]
  ELSE semantic_name_score(encode(m, query), first_emb, last_emb)

\* search, lines 209-214: if score >= threshold: matches.append({**entity, ...})
partial_name_row(entity, sc, threshold) ==
  [keep |-> RatGE(sc.score, threshold),
   row |-> Extend(entity, [similarity |-> sc.score, match_type |-> sc.match_type])]

\* A partial-name branch that would write each score into the caller's records
partial_name_result_in_place(matches, ents) ==
  [results |-> matches,
   match_type |-> IF Len(matches) > 1 THEN "partial" ELSE "exact",
   branch |-> "partial_name",
   exact_matches |-> <<>>, fuzzy_matches |-> <<>>,
   entities |-> [i \in 1..Len(ents) |->
                   IF \E k \in 1..Len(matches) : matches[k].id = ents[i].id
                     THEN Extend(ents[i], [similarity |-> <<19, 20>>])
                     ELSE ents[i]]]

\* search, line 219: 'partial' for more than one match, else 'exact'
partial_name_result(matches, ents) ==
  [results |-> matches,
   match_type |-> IF Len(matches) > 1 THEN "partial" ELSE "exact",
   branch |-> "partial_name",
   exact_matches |-> <<>>, fuzzy_matches |-> <<>>,
   entities |-> ents]

\* search, lines 159-219: the partial-name branch
partial_name_search(m, query, ents, emb, threshold) ==
  partial_name_result(
    SortBySimilarityDesc(KeptRows(
      [idx \in 1..Len(ents) |->
         partial_name_row(ents[idx],
                          partial_name_score(m, query, emb.name_parts[idx],
                                             emb.first_names[idx],
                                             emb.last_names[idx]),
                          threshold)])),
    ents)

\* search, lines 231-247: descriptor equality, else the name rules
exact_row(entity, by_descriptor, nm) ==
  [keep |-> by_descriptor \/ nm.is_match,
   row |-> IF by_descriptor
             THEN Extend(entity, [similarity |-> <<1, 1>>,
                                  match_type |-> "exact_descriptor"])
             ELSE Extend(entity, [similarity |-> nm.score,
                                  match_type |-> nm.match_type])]

\* search, lines 224-247: the exact pass, unsorted
exact_pass(query, ents, emb) ==
  KeptRows(
    [idx \in 1..Len(ents) |->
       exact_row(ents[idx],
                 Lower(query) = Lower(ents[idx].descriptor),
                 check_name_match_with_initials(extract_name_parts(query),
                                                emb.name_parts[idx]))])

\* The fuzzy pass keeps an entity whose ratio is at least 0.85
FuzzyThreshold == <<17, 20>>

\* A fuzzy pass that would drop a ratio of exactly 0.85
fuzzy_included_strict(fuzzy_score) == RatGT(fuzzy_score, FuzzyThreshold)

\* search, line 261: if fuzzy_score >= 0.85
fuzzy_included(fuzzy_score) == RatGE(fuzzy_score, FuzzyThreshold)

\* A fuzzy pass that would not damp the ratio by 0.95
fuzzy_row_undamped(entity, fuzzy_score) ==
  [keep |-> fuzzy_included(fuzzy_score),
   row |-> Extend(entity, [similarity |-> fuzzy_score,
                           match_type |-> "fuzzy",
                           fuzzy_score |-> fuzzy_score])]

\* search, lines 261-267
fuzzy_row(entity, fuzzy_score) ==
  [keep |-> fuzzy_included(fuzzy_score),
   row |-> Extend(entity, [similarity |-> RatMul(fuzzy_score, <<19, 20>>),
                           match_type |-> "fuzzy",
                           fuzzy_score |-> fuzzy_score])]

\* search, lines 255-267: the fuzzy pass
fuzzy_pass(query, ents, emb) ==
  KeptRows(
    [idx \in 1..Len(ents) |->
       fuzzy_row(ents[idx], fuzzy_match_score(query, emb.name_parts[idx].full))])

\* max of the cosines of a query vector with two entity vectors
MaxCosine(query_emb, u, v) ==
  RatMax(cosine_similarity(query_emb, u), cosine_similarity(query_emb, v))

\* search, lines 269-298: the largest of orig_orig, norm_norm and orig_names
semantic_score(original, normalized, emb, idx) ==
  RatMax(MaxCosine(original, emb.original[idx], emb.names[idx]),
         cosine_similarity(normalized, emb.normalized[idx]))

\* search, lines 300-305: the similarity of the first fuzzy match with this id
fuzzy_score_of(fuzzy_matches, id) ==
  LET hits == {k \in 1..Len(fuzzy_matches) : fuzzy_matches[k].id = id}
  IN IF hits = {} THEN <<0, 1>>
     ELSE fuzzy_matches[CHOOSE k \in hits : \A o \in hits : k <= o].similarity

\* A merge that would keep the larger of the fuzzy and the semantic score
final_score_larger(fuzzy_score, semantic) == RatMax(fuzzy_score, semantic)

\* search, line 308: final_score = fuzzy_score if fuzzy_score > 0 else semantic_score
final_score(fuzzy_score, semantic) ==
  IF RatGT(fuzzy_score, <<0, 1>>) THEN fuzzy_score ELSE semantic

\* A merge that would keep every entity whatever its final score
combined_row_unfloored(entity, final, semantic, threshold) ==
  [keep |-> TRUE,
   row |-> Extend(entity, [similarity |-> final, semantic_score |-> semantic])]

\* search, lines 310-315
combined_row(entity, final, semantic, threshold) ==
  [keep |-> RatGE(final, threshold),
   row |-> Extend(entity, [similarity |-> final, semantic_score |-> semantic])]

\* search, lines 320-323: one result scoring at least 0.85 is 'exact'
combined_result(combined_scores, fuzzy_matches, ents) ==
  [results |-> combined_scores,
   match_type |-> IF Len(combined_scores) = 1
                     /\ RatGE(combined_scores[1].similarity, <<17, 20>>)
                    THEN "exact" ELSE "ambiguous",
   branch |-> "combined",
   exact_matches |-> <<>>, fuzzy_matches |-> fuzzy_matches,
   entities |-> ents]

\* One entity of the merge loop, lines 292-315
combined_entry(entity, semantic, fuzzy_score, threshold) ==
  combined_row(entity, final_score(fuzzy_score, semantic), semantic, threshold)

\* search, lines 269-317: combined_scores, merged, thresholded and sorted
combined_scores_of(m, query, ents, emb, threshold, fuzzy_matches) ==
  SortBySimilarityDesc(KeptRows(
    [idx \in 1..Len(ents) |->
       combined_entry(ents[idx],
                      semantic_score(encode(m, query),
                                     encode(m, preprocess_text(query)),
                                     emb, idx),
                      fuzzy_score_of(fuzzy_matches, ents[idx].id),
                      threshold)]))

\* search, lines 269-323: merge, threshold, sort and classify
combined_search(m, query, ents, emb, threshold, fuzzy_matches) ==
  combined_result(
    combined_scores_of(m, query, ents, emb, threshold, fuzzy_matches),
    fuzzy_matches, ents)

\* A search that would go on to the fuzzy and semantic passes whatever the exact
\* pass found
full_name_search_no_exit(m, query, ents, emb, threshold, exact_matches) ==
  combined_search(m, query, ents, emb, threshold, fuzzy_pass(query, ents, emb))

\* search, lines 249-253 and on: exact matches are sorted and returned at once
full_name_search(m, query, ents, emb, threshold, exact_matches) ==
  IF exact_matches # <<>>
    THEN [results |-> SortBySimilarityDesc(exact_matches),
          match_type |-> "exact",
          branch |-> "exact",
          exact_matches |-> exact_matches, fuzzy_matches |-> <<>>,
          entities |-> ents]
  ELSE combined_search(m, query, ents, emb, threshold,
                       fuzzy_pass(query, ents, emb))

\* search: what the call returns (results, match_type), its branch and the
\* lists of its exact and fuzzy passes, and the caller's entity list after the
\* call (every row is a copy of its entity, so the list is as before)
improved_search(m, query, ents, emb, threshold) ==
  IF detect_query_type(query) = "partial_name"
    THEN partial_name_search(m, query, ents, emb, threshold)
  ELSE full_name_search(m, query, ents, emb, threshold,
                        exact_pass(query, ents, emb))

(***************************************************************************)
(* HybridEntityDisambiguator                                               *)
(***************************************************************************)
\* search, lines 69-80
hybrid_exact_row(entity, by_descriptor, by_name) ==
  [keep |-> by_descriptor \/ by_name,
   row |-> IF by_descriptor
             THEN Extend(entity, [similarity |-> <<1, 1>>, match_type |-> "exact"])
             ELSE Extend(entity, [similarity |-> <<19, 20>>,
                                  match_type |-> "exact_name"])]

\* search, lines 66-80: the exact pass, in entity order
hybrid_exact_pass(query, ents) ==
  KeptRows(
    [idx \in 1..Len(ents) |->
       hybrid_exact_row(ents[idx],
                        Lower(query) = Lower(ents[idx].descriptor),
                        Lower(query) = Lower(extract_name(ents[idx].descriptor)))])

\* search, lines 91-97
hybrid_fuzzy_row(entity, fuzzy_score) ==
  [keep |-> RatGE(fuzzy_score, <<17, 20>>),
   row |-> Extend(entity, [similarity |-> fuzzy_score,
                           match_type |-> "fuzzy",
                           fuzzy_score |-> fuzzy_score])]

\* search, lines 86-97: the fuzzy pass
hybrid_fuzzy_pass(query, ents) ==
  KeptRows(
    [idx \in 1..Len(ents) |->
       hybrid_fuzzy_row(ents[idx],
                        fuzzy_match_score(query,
                                          extract_name(ents[idx].descriptor)))])

\* search, lines 99-141: the largest of the four cosine similarities
hybrid_semantic_score(original, normalized, emb, idx) ==
  RatMax(MaxCosine(original, emb.original[idx], emb.names[idx]),
         MaxCosine(normalized, emb.normalized[idx], emb.normalized_names[idx]))

\* search, lines 143-148: the ratio of the first fuzzy match with this id
hybrid_fuzzy_score_of(fuzzy_matches, id) ==
  LET hits == {k \in 1..Len(fuzzy_matches) : fuzzy_matches[k].id = id}
  IN IF hits = {} THEN <<0, 1>>
     ELSE fuzzy_matches[CHOOSE k \in hits : \A o \in hits : k <= o].fuzzy_score

\* a + b of two fractions
RatAdd(x, y) ==
  LET g == GCD(x[2], y[2])
  IN Rat(x[1] * (y[2] \div g) + y[1] * (x[2] \div g), (x[2] \div g) * y[2])

\* search, lines 151-154: 0.7 * fuzzy + 0.3 * semantic for a fuzzy match
hybrid_final_score(fuzzy_score, semantic) ==
  IF RatGT(fuzzy_score, <<0, 1>>)
    THEN RatAdd(RatMul(<<7, 10>>, fuzzy_score), RatMul(<<3, 10>>, semantic))
    ELSE semantic

\* search, lines 156-162
hybrid_combined_row(entity, final, semantic, fuzzy_score, threshold) ==
  [keep |-> RatGE(final, threshold),
   row |-> Extend(entity, [similarity |-> final,
                           semantic_score |-> semantic,
                           fuzzy_score |-> fuzzy_score])]

hybrid_combined_entry(entity, semantic, fuzzy_score, threshold) ==
  hybrid_combined_row(entity, hybrid_final_score(fuzzy_score, semantic),
                      semantic, fuzzy_score, threshold)

\* The last lines of the baseline and hybrid searches: one result scoring at
\* least 0.85, or a top result scoring at least 0.85 and more than 0.1 above the
\* runner-up, is returned alone as 'exact'; anything else is 'ambiguous'
collapse(rows, branch, ents, fuzzy_matches) ==
  [results |-> IF /\ Len(rows) > 1
                  /\ RatGE(rows[1].similarity, <<17, 20>>)
                  /\ RatGT(RatSub(rows[1].similarity, rows[2].similarity),
                           <<1, 10>>)
                 THEN <<rows[1]>> ELSE rows,
   match_type |-> IF /\ Len(rows) > 0
                     /\ RatGE(rows[1].similarity, <<17, 20>>)
                     /\ \/ Len(rows) = 1
                        \/ RatGT(RatSub(rows[1].similarity, rows[2].similarity),
                                 <<1, 10>>)
                    THEN "exact" ELSE "ambiguous",
   branch |-> branch,
   exact_matches |-> <<>>, fuzzy_matches |-> fuzzy_matches,
   entities |-> ents]

\* search, lines 99-165: combined_scores, merged, thresholded and sorted
hybrid_combined_scores_of(m, query, ents, emb, threshold, fuzzy_matches) ==
  SortBySimilarityDesc(KeptRows(
    [idx \in 1..Len(ents) |->
       hybrid_combined_entry(ents[idx],
                             hybrid_semantic_score(encode(m, query),
                                                   encode(m, preprocess_text(query)),
                                                   emb, idx),
                             hybrid_fuzzy_score_of(fuzzy_matches, ents[idx].id),
                             threshold)]))

\* search, lines 99-176
hybrid_combined_search(m, query, ents, emb, threshold, fuzzy_matches) ==
  collapse(
    hybrid_combined_scores_of(m, query, ents, emb, threshold, fuzzy_matches),
    "combined", ents, fuzzy_matches)

\* search, lines 82-84: exact matches are returned at once, as appended
hybrid_full_search(m, query, ents, emb, threshold, exact_matches) ==
  IF exact_matches # <<>>
    THEN [results |-> exact_matches, match_type |-> "exact",
          branch |-> "exact",
          exact_matches |-> exact_matches, fuzzy_matches |-> <<>>,
          entities |-> ents]
  ELSE hybrid_combined_search(m, query, ents, emb, threshold,
                              hybrid_fuzzy_pass(query, ents))

\* search
hybrid_search(m, query, ents, emb, threshold) ==
  hybrid_full_search(m, query, ents, emb, threshold,
                     hybrid_exact_pass(query, ents))

(***************************************************************************)
(* EntityDisambiguator (the baseline)                                      *)
(***************************************************************************)
\* entities.index(match): the first position holding an equal record
IndexOf(ents, match) ==
  CHOOSE i \in 1..Len(ents) : ents[i] = match /\ \A j \in 1..(i - 1) : ents[j] # match

\* search, lines 63-65: match["similarity"] = float(similarities[idx]) writes
\* into the caller's own entity record
write_similarity(entity, hit, similarity) ==
  [keep |-> hit,
   row |-> IF hit THEN Extend(entity, [similarity |-> similarity]) ELSE entity]

\* Every entity with the similarity written if the query is in its descriptor
written_entities(query, ents, similarities) ==
  [idx \in 1..Len(ents) |->
     write_similarity(ents[idx],
                      Contains(Lower(ents[idx].descriptor), Lower(query)),
                      similarities[IndexOf(ents, ents[idx])])]

\* A fallback that would return the records in entity order
substring_fallback_unsorted(written) ==
  [results |-> KeptRows(written),
   match_type |-> "ambiguous",
   branch |-> "substring",
   exact_matches |-> <<>>, fuzzy_matches |-> <<>>,
   entities |-> [idx \in 1..Len(written) |-> written[idx].row]]

\* search, lines 54-69: the substring fallback returns the written records
substring_fallback(written) ==
  [results |-> SortBySimilarityDesc(KeptRows(written)),
   match_type |-> "ambiguous",
   branch |-> "substring",
   exact_matches |-> <<>>, fuzzy_matches |-> <<>>,
   entities |-> [idx \in 1..Len(written) |-> written[idx].row]]

\* search, lines 34-40
baseline_row(entity, similarity, idx, threshold) ==
  [keep |-> RatGE(similarity, threshold),
   row |-> Extend(entity, [similarity |-> similarity, rank |-> idx])]

\* search, lines 47-71
baseline_result(query, ents, similarities, matches) ==
  IF matches = <<>>
    THEN substring_fallback(written_entities(query, ents, similarities))
  ELSE collapse(matches, "semantic", ents, <<>>)

\* search, lines 32-43: the matches at or above the threshold, sorted
baseline_matches(ents, similarities, threshold) ==
  SortBySimilarityDesc(KeptRows(
    [idx \in 1..Len(ents) |->
       baseline_row(ents[idx], similarities[idx], idx, threshold)]))

\* search, lines 26-30
baseline_similarities(query_embedding, ents, emb) ==
  [idx \in 1..Len(ents) |-> cosine_similarity(query_embedding, emb.original[idx])]

baseline_scored(query, ents, similarities, threshold) ==
  baseline_result(query, ents, similarities,
                  baseline_matches(ents, similarities, threshold))

\* search
baseline_search(m, query, ents, emb, threshold) ==
  baseline_scored(query, ents,
                  baseline_similarities(encode(m, query), ents, emb), threshold)

(***************************************************************************)
(* LRUCache: an OrderedDict, here the sequence of its items from the least   *)
(* to the most recently used, each a record [key, value]                    *)
(***************************************************************************)
\* key in self.cache
HasKey(items, key) == \E i \in 1..Len(items) : items[i].key = key

\* self.cache[key]
ValueOf(items, key) == items[CHOOSE i \in 1..Len(items) : items[i].key = key].value

\* self.cache.move_to_end(key)
move_to_end(items, key) ==
  SelectSeq(items, LAMBDA e : e.key # key) \o SelectSeq(items, LAMBDA e : e.key = key)

\* self.cache[key] = value: a present key keeps its place, a new one goes last
set_item(items, key, value) ==
  IF HasKey(items, key)
    THEN [i \in 1..Len(items) |->
            IF items[i].key = key THEN [key |-> key, value |-> value] ELSE items[i]]
    ELSE Append(items, [key |-> key, value |-> value])

\* self.cache.popitem(last=False)
popitem_first(items) == Tail(items)

\* LRUCache.get: the items after the call and the value returned
get(items, key) ==
  IF HasKey(items, key)
    THEN [cache |-> move_to_end(items, key), returned |-> ValueOf(items, key)]
    ELSE [cache |-> items, returned |-> "None"]

\* put, lines 39-41, with an eviction that would start one entry too late
evict_late(cap, items) ==
  IF Len(items) > cap + 1 THEN popitem_first(items) ELSE items

\* put, lines 39-41: if len(self.cache) > self.capacity: popitem(last=False)
evict(cap, items) ==
  IF Len(items) > cap THEN popitem_first(items) ELSE items

\* put, lines 35-36, without the move of a present key
keep_place(items, key) == items

\* put, lines 35-36: if key in self.cache: self.cache.move_to_end(key)
touch(items, key) ==
  IF HasKey(items, key) THEN move_to_end(items, key) ELSE items

\* LRUCache.put: the items after the call
put(cap, items, key, value) ==
  evict(cap, set_item(touch(items, key), key, value))

(***************************************************************************)
(* TwoStageEntityDisambiguator                                             *)
(***************************************************************************)
\* The sum of a sequence of fractions
RECURSIVE RatSum(_)
RatSum(xs) == IF xs = <<>> THEN <<0, 1>> ELSE RatAdd(Head(xs), RatSum(Tail(xs)))

\* np.var: the mean of the squared distances from the mean
np_var(xs) ==
  LET mean == RatMul(RatSum(xs), <<1, Len(xs)>>)
      squares == [i \in 1..Len(xs) |->
                    RatMul(RatSub(xs[i], mean), RatSub(xs[i], mean))]
  IN RatMul(RatSum(squares), <<1, Len(xs)>>)

\* should_rerank, lines 120-126: [r["similarity"] for r in results[:5]]
top_scores(rows) == [i \in 1..5 |-> rows[i].similarity]

\* should_rerank with a clear winner that starts at 0.95
clear_winner_from(rows) == RatGE(rows[1].similarity, <<19, 20>>)

\* should_rerank, line 116: results[0]["similarity"] > 0.95
clear_winner(rows) == RatGT(rows[1].similarity, <<19, 20>>)

\* TwoStageEntityDisambiguator.should_rerank
should_rerank(reranker, rows, query_type) ==
  IF ~reranker \/ Len(rows) <= 3 THEN FALSE
  ELSE IF clear_winner(rows) THEN FALSE
  ELSE IF Len(rows) >= 5 /\ ~RatGE(np_var(top_scores(rows)), <<1, 100>>) THEN TRUE
  ELSE query_type = "ambiguous"

(***************************************************************************)
(* MockReranker                                                            *)
(***************************************************************************)
\* seq[:k]
Slice(seq, k) ==
  IF k >= 0 THEN SubSeq(seq, 1, IF k < Len(seq) THEN k ELSE Len(seq))
  ELSE SubSeq(seq, 1, IF Len(seq) + k > 0 THEN Len(seq) + k ELSE 0)

\* set(text.split())
WordSet(text) == {Split(text)[i] : i \in 1..Len(Split(text))}

\* text.startswith(prefix)
StartsWith(text, prefix) ==
  Len(prefix) <= Len(text) /\ SubSeq(text, 1, Len(prefix)) = prefix

\* compute_features, on the lower-cased query and document and their lengths
features_of(query_lower, doc_lower, shorter, longer) ==
  [exact_match |-> IF Contains(doc_lower, query_lower) THEN <<1, 1>> ELSE <<0, 1>>,
   word_overlap |-> Rat(Cardinality(WordSet(query_lower) \cap WordSet(doc_lower)),
                        Len(Split(query_lower))),
   length_ratio |-> Rat(shorter, longer),
   position_score |-> IF StartsWith(doc_lower, query_lower)
                        THEN <<1, 1>> ELSE <<1, 2>>]

\* compute_features
compute_features(query, document) ==
  features_of(Lower(query), Lower(document),
              IF Len(query) < Len(document) THEN Len(query) ELSE Len(document),
              IF Len(query) < Len(document) THEN Len(document) ELSE Len(query))

\* rerank, lines 79-84: the weighted sum of the features
rerank_score(features) ==
  RatSum(<<RatMul(features.exact_match, <<2, 5>>),
           RatMul(features.word_overlap, <<3, 10>>),
           RatMul(features.length_ratio, <<1, 10>>),
           RatMul(features.position_score, <<1, 5>>)>>)

\* rerank: (idx, score) of the top_k documents by score, the sort being stable
rerank(query, documents, top_k) ==
  Slice(SortBySimilarityDesc(
          [idx \in 1..Len(documents) |->
             [idx |-> idx,
              similarity |-> rerank_score(compute_features(query, documents[idx]))]]),
        top_k)

(***************************************************************************)
(* TwoStageEntityDisambiguator.search                                      *)
(***************************************************************************)
\* ','.join(ids)
RECURSIVE JoinComma(_)
JoinComma(ids) ==
  IF ids = <<>> THEN <<>>
  ELSE IF Len(ids) = 1 THEN <<ids[1]>>
  ELSE <<ids[1], ",">> \o JoinComma(Tail(ids))

\* search, line 179: f"{query}:{','.join([r['id'] for r in retrieval_results])}"
cache_key(query, retrieval_results) ==
  query \o <<":">>
    \o JoinComma([i \in 1..Len(retrieval_results) |-> retrieval_results[i].id])

\* A blend that would weigh the two scores equally
blend_evenly(retrieval_score, score) ==
  RatAdd(RatMul(<<1, 2>>, retrieval_score), RatMul(<<1, 2>>, score))

\* search, line 209: 0.6 * original_result["similarity"] + 0.4 * rerank_score
blend(retrieval_score, score) ==
  RatAdd(RatMul(<<3, 5>>, retrieval_score), RatMul(<<2, 5>>, score))

\* search, lines 220-225
reranked_result(original_result, score) ==
  Extend(original_result,
         [similarity |-> blend(original_result.similarity, score),
          retrieval_score |-> original_result.similarity,
          rerank_score |-> score])

\* search, lines 202-225: final_results, in the order the reranker gave
final_results_of(retrieval_results, reranked_indices) ==
  [i \in 1..Len(reranked_indices) |->
     reranked_result(retrieval_results[reranked_indices[i].idx],
                     reranked_indices[i].similarity)]

\* search, lines 164-172: the call returns the retrieval results
not_reranked(retrieval_results, query_type, final_top_k, metrics, items) ==
  [out |-> [results |-> Slice(retrieval_results, final_top_k),
            match_type |-> query_type, used_reranker |-> FALSE,
            from_cache |-> "absent",
            retrieval_candidates |-> Len(retrieval_results)],
   metrics |-> metrics, cache |-> items, looked_up |-> FALSE, present |-> FALSE]

\* search, lines 182-194: the call returns what the cache held
served_from_cache(retrieval_results, query_type, final_top_k, metrics, got) ==
  [out |-> [results |-> Slice(got.returned, final_top_k),
            match_type |-> query_type, used_reranker |-> TRUE,
            from_cache |-> "True",
            retrieval_candidates |-> Len(retrieval_results)],
   metrics |-> [metrics EXCEPT !.cache_hits = @ + 1,
                               !.rerank_time = Append(@, "dt")],
   cache |-> got.cache, looked_up |-> TRUE, present |-> TRUE]

\* search, lines 198-242: the call reranks, and caches the list if it uses a cache
freshly_reranked(use_cache, cap, items, key, retrieval_results, query_type, metrics, final_results, present) ==
  [out |-> [results |-> final_results,
            match_type |-> query_type, used_reranker |-> TRUE,
            from_cache |-> "False",
            retrieval_candidates |-> Len(retrieval_results)],
   metrics |-> [metrics EXCEPT !.rerank_time = Append(@, "dt")],
   cache |-> IF use_cache THEN put(cap, items, key, final_results) ELSE items,
   looked_up |-> use_cache, present |-> present]

\* search, lines 180-182: cached_results = self.cache.get(cache_key);
\* if cached_results: an empty list counts as a miss
cached(items, key) == HasKey(items, key) /\ ValueOf(items, key) # <<>>

\* search, lines 173-242: the second stage
second_stage(inst, cap, items, query, key, retrieval_results, query_type, final_top_k, metrics) ==
  IF inst.use_cache /\ cached(items, key)
    THEN served_from_cache(retrieval_results, query_type, final_top_k, metrics,
                           get(items, key))
  ELSE freshly_reranked(
         inst.use_cache, cap,
         IF inst.use_cache THEN get(items, key).cache ELSE items,
         key, retrieval_results, query_type,
         IF inst.use_cache
           THEN [metrics EXCEPT !.cache_misses = @ + 1] ELSE metrics,
         final_results_of(
           retrieval_results,
           rerank(query,
                  [i \in 1..Len(retrieval_results) |->
                     retrieval_results[i].descriptor],
                  final_top_k)),
         inst.use_cache /\ HasKey(items, key))

\* search, lines 151-172, after the retriever returned
after_retrieval(inst, cap, items, query, retrieval_results, query_type, final_top_k, metrics) ==
  IF ~should_rerank(inst.reranker, retrieval_results, query_type)
    THEN not_reranked(retrieval_results, query_type, final_top_k, metrics, items)
  ELSE second_stage(inst, cap, items, query,
                    cache_key(query, retrieval_results),
                    retrieval_results, query_type, final_top_k, metrics)

\* TwoStageEntityDisambiguator.search, given what self.retriever.search returned:
\* the dictionary it returns, the metrics and the cache items after the call,
\* whether it looked its key up and whether the key was present then
two_stage_search(inst, cap, items, query, retrieved, retrieval_top_k, final_top_k) ==
  after_retrieval(inst, cap, items, query,
                  Slice(retrieved.results, retrieval_top_k),
                  retrieved.match_type, final_top_k,
                  [inst.metrics EXCEPT !.total_searches = @ + 1,
                                       !.retrieval_time = Append(@, "dt")])

(***************************************************************************)
(* The caller's inputs                                                     *)
(***************************************************************************)
\* Longest entity list a caller supplies
MaxEntities == 2

\* Most consecutive calls a caller makes with the same arguments
MaxRepeats == 2

\* threshold: the default 0.5, and two stricter values
Thresholds == {<<1, 2>>, <<4, 5>>, <<24, 25>>}

EntityIds == <<"1", "2", "3", "4">>

\* Every list of at most MaxEntities different descriptors, with ids by position
EntityLists ==
  LET picks == UNION {[1..n -> 1..Len(DescriptorPool)] : n \in 0..MaxEntities}
      distinct(f) == \A i, j \in DOMAIN f : i # j => f[i] # f[j]
  IN {[i \in DOMAIN f |-> [id |-> EntityIds[i], descriptor |-> DescriptorPool[f[i]]]] :
        f \in {g \in picks : distinct(g)}}

Queries == {QueryPool[i] : i \in 1..Len(QueryPool)}

(***************************************************************************)
(* State                                                                   *)
(***************************************************************************)
VARIABLES
  model,              \* which embedder the disambiguators were built with
  entities,           \* the caller's entity list
  entity_embeddings,  \* the index built from it
  pc,                 \* "new": no index yet; "idle"; "returned": a search returned
  call,               \* the last search call: kind, query, threshold, count
  results,            \* the list it returned
  match_type,         \* the match type it returned
  locals,             \* its branch, exact_matches and fuzzy_matches
  prev,               \* what the call before it returned, if that had the same
                      \* arguments, and the entity list before the first such call
  given,              \* the entity list and index as first supplied and built
  capacity,           \* LRUCache.capacity
  cache,              \* LRUCache.cache
  cache_call,         \* the last get or put, what it returned, the items before it
  used,               \* the keys in the order of their last use, oldest first
  applied,            \* a helper called on its own: its name, arguments and value
  instance,           \* a TwoStageEntityDisambiguator: its fields but the cache
  stage_call,         \* its last search: arguments, returned dictionary, state before
  threads             \* the cache steps of searches running on threads

search_vars == <<model, entities, entity_embeddings, pc, call, results, match_type,
                 locals, prev, given>>

cache_vars == <<capacity, cache, cache_call, used>>

stage_vars == <<instance, stage_call, threads>>

vars == <<search_vars, cache_vars, applied, stage_vars>>

\* No helper is called on its own
NothingApplied == applied = [fn |-> "", args |-> <<>>, done |-> FALSE, value |-> <<>>]

NoMetrics ==
  [retrieval_time |-> <<>>, rerank_time |-> <<>>, cache_hits |-> 0,
   cache_misses |-> 0, total_searches |-> 0]

NoStageCall ==
  [query |-> <<>>, threshold |-> <<0, 1>>, retrieval_top_k |-> 0, final_top_k |-> 0,
   out |-> [results |-> <<>>, match_type |-> "", used_reranker |-> FALSE,
            from_cache |-> "absent", retrieval_candidates |-> 0],
   looked_up |-> FALSE, present |-> FALSE,
   before |-> [retriever |-> "", reranker |-> FALSE, use_cache |-> FALSE,
               metrics |-> NoMetrics],
   cache_before |-> <<>>, count |-> 0]

\* No two-stage disambiguator is in use, and no thread runs
StageUnused ==
  /\ instance = [retriever |-> "", reranker |-> FALSE, use_cache |-> FALSE,
                 metrics |-> NoMetrics]
  /\ stage_call = NoStageCall
  /\ threads = <<>>

NoCacheCall ==
  [op |-> "none", key |-> "", value |-> "", returned |-> "None",
   before |-> <<>>, used_before |-> <<>>]

\* No cache is in use
CacheUnused ==
  capacity = 0 /\ cache = <<>> /\ cache_call = NoCacheCall /\ used = <<>>

EmptyIndex ==
  [original |-> <<>>, normalized |-> <<>>, names |-> <<>>,
   normalized_names |-> <<>>, first_names |-> <<>>, last_names |-> <<>>,
   name_parts |-> <<>>]

NoCall == [kind |-> "none", query |-> <<>>, threshold |-> <<0, 1>>, count |-> 0]
NoLocals == [branch |-> "", exact_matches |-> <<>>, fuzzy_matches |-> <<>>]
NoPrev == [results |-> <<>>, match_type |-> "", entities |-> <<>>]

Init ==
  /\ model \in Models
  /\ entities \in EntityLists
  /\ entity_embeddings = EmptyIndex
  /\ pc = "new"
  /\ call = NoCall
  /\ results = <<>>
  /\ match_type = ""
  /\ locals = NoLocals
  /\ prev = NoPrev
  /\ given = [entities |-> entities, entity_embeddings |-> EmptyIndex]
  /\ CacheUnused
  /\ StageUnused
  /\ NothingApplied

\* The caller builds the index once, before any search
CreateEntityEmbeddings ==
  /\ pc = "new"
  /\ entity_embeddings' = create_entity_embeddings(model, entities)
  /\ given' = [entities |-> entities, entity_embeddings |-> entity_embeddings']
  /\ pc' = "idle"
  /\ UNCHANGED <<model, entities, call, results, match_type, locals, prev>>
  /\ UNCHANGED <<cache_vars, applied, stage_vars>>

\* A call is the first of its kind and arguments, or repeats the call before it
MayCall(kind, query, threshold) ==
  \/ pc = "idle"
  \/ /\ pc = "returned"
     /\ call.kind = kind /\ call.query = query /\ call.threshold = threshold
     /\ call.count < MaxRepeats

\* The state after a search of `kind` returned `out`
Returned(kind, query, threshold, out) ==
  /\ call' = [kind |-> kind, query |-> query, threshold |-> threshold,
              count |-> IF pc = "returned" THEN call.count + 1 ELSE 1]
  /\ prev' = IF pc = "returned"
               THEN [results |-> results, match_type |-> match_type,
                     entities |-> prev.entities]
               ELSE [results |-> <<>>, match_type |-> "", entities |-> entities]
  /\ results' = out.results
  /\ match_type' = out.match_type
  /\ locals' = [branch |-> out.branch, exact_matches |-> out.exact_matches,
                fuzzy_matches |-> out.fuzzy_matches]
  /\ entities' = out.entities
  /\ pc' = "returned"
  /\ UNCHANGED <<model, entity_embeddings, given>>
  /\ UNCHANGED <<cache_vars, applied, stage_vars>>

ImprovedSearch(query, threshold) ==
  /\ MayCall("improved", query, threshold)
  /\ LET out == improved_search(model, query, entities, entity_embeddings, threshold)
     IN Returned("improved", query, threshold, out)

HybridSearch(query, threshold) ==
  /\ MayCall("hybrid", query, threshold)
  /\ LET out == hybrid_search(model, query, entities, entity_embeddings, threshold)
     IN Returned("hybrid", query, threshold, out)

BaselineSearch(query, threshold) ==
  /\ MayCall("baseline", query, threshold)
  /\ LET out == baseline_search(model, query, entities, entity_embeddings, threshold)
     IN Returned("baseline", query, threshold, out)

\* The caller is done with the result and may search for something else
Return ==
  /\ pc = "returned"
  /\ pc' = "idle"
  /\ call' = NoCall
  /\ results' = <<>>
  /\ match_type' = ""
  /\ locals' = NoLocals
  /\ prev' = NoPrev
  /\ UNCHANGED <<model, entities, entity_embeddings, given>>
  /\ UNCHANGED <<cache_vars, applied, stage_vars>>

Next ==
  \/ CreateEntityEmbeddings
  \/ \E query \in Queries, threshold \in Thresholds : ImprovedSearch(query, threshold)
  \/ \E query \in Queries, threshold \in Thresholds : HybridSearch(query, threshold)
  \/ \E query \in Queries, threshold \in Thresholds : BaselineSearch(query, threshold)
  \/ Return

Spec == Init /\ [][Next]_vars

(***************************************************************************)
(* An LRUCache on its own: any sequence of get and put                     *)
(***************************************************************************)
\* Largest capacity a cache is built with
MaxCapacity == 2

CacheKeys == {"k1", "k2", "k3"}
CacheValues == {"v1", "v2"}

\* No search is under way
SearchUnused ==
  /\ model = "cased"
  /\ entities = <<>>
  /\ entity_embeddings = EmptyIndex
  /\ pc = "new"
  /\ call = NoCall
  /\ results = <<>>
  /\ match_type = ""
  /\ locals = NoLocals
  /\ prev = NoPrev
  /\ given = [entities |-> <<>>, entity_embeddings |-> EmptyIndex]

\* LRUCache.__init__
CacheInit ==
  /\ SearchUnused
  /\ capacity \in 0..MaxCapacity
  /\ cache = <<>>
  /\ cache_call = NoCacheCall
  /\ used = <<>>
  /\ NothingApplied
  /\ StageUnused

\* The order of last use after a use of key
UsedNow(key) == SelectSeq(used, LAMBDA k : k # key) \o <<key>>

\* LRUCache.get
Get(key) ==
  /\ cache' = get(cache, key).cache
  /\ cache_call' = [op |-> "get", key |-> key, value |-> "",
                    returned |-> get(cache, key).returned,
                    before |-> cache, used_before |-> used]
  /\ used' = IF HasKey(cache, key) THEN UsedNow(key) ELSE used
  /\ UNCHANGED <<capacity, search_vars, applied, stage_vars>>

\* LRUCache.put
Put(key, value) ==
  /\ cache' = put(capacity, cache, key, value)
  /\ cache_call' = [op |-> "put", key |-> key, value |-> value,
                    returned |-> "None",
                    before |-> cache, used_before |-> used]
  /\ used' = UsedNow(key)
  /\ UNCHANGED <<capacity, search_vars, applied, stage_vars>>

CacheNext ==
  \/ \E key \in CacheKeys : Get(key)
  \/ \E key \in CacheKeys, value \in CacheValues : Put(key, value)

SpecCache == CacheInit /\ [][CacheNext]_vars

(***************************************************************************)
(* A helper called on its own, on arguments drawn from a bounded set       *)
(***************************************************************************)
\* The call of helper fn on args, before it is made
Pending(fn, args) ==
  /\ SearchUnused
  /\ CacheUnused
  /\ StageUnused
  /\ applied = [fn |-> fn, args |-> args, done |-> FALSE, value |-> <<>>]

\* The call returns value
Returns(fn, value) ==
  /\ applied.fn = fn
  /\ ~applied.done
  /\ applied' = [applied EXCEPT !.done = TRUE, !.value = value]
  /\ UNCHANGED <<search_vars, cache_vars, stage_vars>>

\* The strings of at most n characters of an alphabet
RECURSIVE StringsUpTo(_, _)
StringsUpTo(alphabet, n) ==
  IF n = 0 THEN {<<>>}
  ELSE LET shorter == StringsUpTo(alphabet, n - 1)
       IN shorter \cup {Append(s, c) : s \in shorter, c \in alphabet}

\* Longest string given to fuzzy_match_score
MaxFuzzyLen == 3

FuzzyAlphabet == {"a", "b", "C"}

FuzzyInit ==
  \E s1, s2 \in StringsUpTo(FuzzyAlphabet, MaxFuzzyLen) :
    Pending("fuzzy_match_score", <<s1, s2>>)

\* fuzzy_match_score(s1, s2)
FuzzyMatchScore ==
  Returns("fuzzy_match_score",
          fuzzy_match_score(applied.args[1], applied.args[2]))

SpecFuzzy == FuzzyInit /\ [][FuzzyMatchScore]_vars

(***************************************************************************)
(* detect_query_type on its own: any short query                           *)
(***************************************************************************)
\* Longest query classified
MaxQueryLen == 5

ClassifyAlphabet == {" ", "a", "B", "."}

ClassifyInit ==
  /\ SearchUnused
  /\ CacheUnused
  /\ StageUnused
  /\ \E query \in StringsUpTo(ClassifyAlphabet, MaxQueryLen) :
       Pending("detect_query_type", <<query>>)

\* detect_query_type(query)
DetectQueryType ==
  Returns("detect_query_type", detect_query_type(applied.args[1]))

SpecClassify == ClassifyInit /\ [][DetectQueryType]_vars

(***************************************************************************)
(* check_name_match_with_initials on its own: a query name and a candidate *)
(* name that differ in their middle tokens and in their spacing            *)
(***************************************************************************)
\* Most middle tokens of a name
MaxMiddles == 2

\* 'M.', 'Mi', 'No', '-.', '-x'
MiddleTokens == {<<"M",".">>, <<"M","i">>, <<"N","o">>, <<"-",".">>, <<"-","x">>}

MiddleLists == UNION {[1..n -> MiddleTokens] : n \in 0..MaxMiddles}

\* first, the gap, then the other tokens with single spaces
NameText(first, gap, middles, last) ==
  first \o gap \o JoinSpace(middles \o <<last>>)

\* 'al ... Bo' and 'al ... Cy', with one or two spaces after the first name
QueryNames ==
  {NameText(<<"a","l">>, gap, middles, last) :
     gap \in {<<" ">>, <<" ", " ">>}, middles \in MiddleLists,
     last \in {<<"B","o">>, <<"C","y">>}}

\* 'Al ... Bo'
CandidateNames == {NameText(<<"A","l">>, <<" ">>, middles, <<"B","o">>) : middles \in MiddleLists}

MiddleInit ==
  /\ SearchUnused
  /\ CacheUnused
  /\ StageUnused
  /\ \E query \in QueryNames, descriptor \in CandidateNames :
       Pending("check_name_match_with_initials", <<query, descriptor>>)

\* check_name_match_with_initials(extract_name_parts(query), name_parts[idx])
CheckNameMatchWithInitials ==
  Returns("check_name_match_with_initials",
          check_name_match_with_initials(extract_name_parts(applied.args[1]),
                                         extract_name_parts(applied.args[2])))

SpecMiddle == MiddleInit /\ [][CheckNameMatchWithInitials]_vars

(***************************************************************************)
(* should_rerank on its own: any short candidate list                      *)
(***************************************************************************)
\* Most candidates given to should_rerank
MaxCandidates == 6

\* Similarities of the candidates
CandidateScores == {<<1, 1>>, <<19, 20>>, <<9, 10>>, <<4, 5>>, <<1, 2>>}

\* The match types a retriever reports
MatchTypes == {"exact", "partial", "ambiguous"}

\* Result lists as a retriever returns them: sorted by similarity, descending
CandidateLists ==
  LET lists == UNION {[1..n -> CandidateScores] : n \in 0..MaxCandidates}
      sorted(f) == \A i \in 1..(Len(f) - 1) : RatGE(f[i], f[i + 1])
  IN {[i \in 1..Len(f) |-> [id |-> i, similarity |-> f[i]]] :
        f \in {g \in lists : sorted(g)}}

RerankInit ==
  \E reranker \in BOOLEAN, rows \in CandidateLists, query_type \in MatchTypes :
    Pending("should_rerank", <<reranker, rows, query_type>>)

\* should_rerank(results, query_type)
ShouldRerank ==
  Returns("should_rerank",
          should_rerank(applied.args[1], applied.args[2], applied.args[3]))

SpecRerank == RerankInit /\ [][ShouldRerank]_vars

(***************************************************************************)
(* Searches of a list of people with middle names and namesakes            *)
(***************************************************************************)
PartialDescriptorPool ==
  << \* 'Anna Jane Jones'
     <<"A","n","n","a"," ","J","a","n","e"," ","J","o","n","e","s">>,
     \* 'Jane Marie Smith - PM'
     <<"J","a","n","e"," ","M","a","r","i","e"," ","S","m","i","t","h"," ","-"," ","P","M">>,
     \* 'John Smith - Eng'
     <<"J","o","h","n"," ","S","m","i","t","h"," ","-"," ","E","n","g">>,
     \* 'Madonna'
     <<"M","a","d","o","n","n","a">>,
     \* 'Mark Jo'
     <<"M","a","r","k"," ","J","o">>,
     \* 'John Smith'
     <<"J","o","h","n"," ","S","m","i","t","h">> >>

PartialQueryPool ==
  << \* 'J'
     <<"J">>,
     \* 'j'
     <<"j">>,
     \* 'M'
     <<"M">>,
     \* 'S'
     <<"S">>,
     \* 'Jane'
     <<"J","a","n","e">>,
     \* 'jones'
     <<"j","o","n","e","s">>,
     \* 'Marie'
     <<"M","a","r","i","e">>,
     \* 'Jo'
     <<"J","o">>,
     \* 'Jon'
     <<"J","o","n">>,
     \* ' Jane'
     <<" ","J","a","n","e">>,
     \* 'john smith'
     <<"j","o","h","n"," ","s","m","i","t","h">> >>

PartialThresholds == {<<0, 1>>, <<1, 2>>, <<4, 5>>, <<17, 20>>}

PartialEntityLists ==
  LET picks == UNION {[1..n -> 1..Len(PartialDescriptorPool)] : n \in 0..MaxEntities}
      distinct(f) == \A i, j \in DOMAIN f : i # j => f[i] # f[j]
  IN {[i \in DOMAIN f |->
         [id |-> EntityIds[i], descriptor |-> PartialDescriptorPool[f[i]]]] :
        f \in {g \in picks : distinct(g)}}

PartialQueries == {PartialQueryPool[i] : i \in 1..Len(PartialQueryPool)}

PartialInit ==
  /\ model \in Models
  /\ entities \in PartialEntityLists
  /\ entity_embeddings = EmptyIndex
  /\ pc = "new"
  /\ call = NoCall
  /\ results = <<>>
  /\ match_type = ""
  /\ locals = NoLocals
  /\ prev = NoPrev
  /\ given = [entities |-> entities, entity_embeddings |-> EmptyIndex]
  /\ CacheUnused
  /\ StageUnused
  /\ NothingApplied

PartialNext ==
  \/ CreateEntityEmbeddings
  \/ \E query \in PartialQueries, threshold \in PartialThresholds :
       ImprovedSearch(query, threshold)
  \/ \E query \in PartialQueries, threshold \in PartialThresholds :
       HybridSearch(query, threshold)
  \/ Return

SpecPartial == PartialInit /\ [][PartialNext]_vars


(***************************************************************************)
(* A TwoStageEntityDisambiguator over an ImprovedEntityDisambiguator and a *)
(* MockReranker: searches of one list of five entities                     *)
(***************************************************************************)
\* Most searches of one instance
MaxSearches == 2

StageEntities ==
  << \* 'Madonna'
     [id |-> "1", descriptor |-> <<"M","a","d","o","n","n","a">>],
     \* 'J Smith - X'
     [id |-> "2", descriptor |-> <<"J"," ","S","m","i","t","h"," ","-"," ","X">>],
     \* 'Joan Of Arc - Saint'
     [id |-> "3", descriptor |-> <<"J","o","a","n"," ","O","f"," ","A","r","c"," ","-"," ","S","a","i","n","t">>],
     \* 'John  Smith - X'
     [id |-> "4", descriptor |-> <<"J","o","h","n"," "," ","S","m","i","t","h"," ","-"," ","X">>],
     \* 'Christopher Robinson'
     [id |-> "5", descriptor |-> <<"C","h","r","i","s","t","o","p","h","e","r"," ","R","o","b","i","n","s","o","n">>] >>

StageQueries ==
  {\* 'John Smith'
   <<"J","o","h","n"," ","S","m","i","t","h">>,
   \* 'Jhon Smith'
   <<"J","h","o","n"," ","S","m","i","t","h">>,
   \* 'Madonna'
   <<"M","a","d","o","n","n","a">>}

StageThresholds == {<<0, 1>>, <<1, 2>>}

\* retrieval_top_k: the default 20, and a value that cuts the list
RetrievalTopKs == {4, 20}

\* final_top_k: the default 5, a smaller value, and none
FinalTopKs == {0, 2, 5}

\* TwoStageEntityDisambiguator.__init__
StageInit ==
  /\ model \in Models
  /\ entities = StageEntities
  /\ entity_embeddings = EmptyIndex
  /\ pc = "new"
  /\ call = NoCall
  /\ results = <<>>
  /\ match_type = ""
  /\ locals = NoLocals
  /\ prev = NoPrev
  /\ given = [entities |-> entities, entity_embeddings |-> EmptyIndex]
  /\ NothingApplied
  /\ \E reranker \in BOOLEAN, use_cache \in BOOLEAN :
       /\ instance = [retriever |-> "ImprovedEntityDisambiguator",
                      reranker |-> reranker, use_cache |-> use_cache,
                      metrics |-> NoMetrics]
       /\ capacity \in IF use_cache THEN 1..MaxCapacity ELSE {0}
  /\ cache = <<>>
  /\ cache_call = NoCacheCall
  /\ used = <<>>
  /\ stage_call = NoStageCall
  /\ threads = <<>>

\* A search that would also switch the cache off
instance_after_forgetful(inst, metrics) ==
  [inst EXCEPT !.metrics = metrics, !.use_cache = FALSE]

\* search writes self.metrics and no other field of the instance
instance_after(inst, metrics) == [inst EXCEPT !.metrics = metrics]

\* The state after a two-stage search returned `r`
StageReturned(query, threshold, retrieval_top_k, final_top_k, r) ==
  /\ instance' = instance_after(instance, r.metrics)
  /\ cache' = r.cache
  /\ stage_call' = [query |-> query, threshold |-> threshold,
                    retrieval_top_k |-> retrieval_top_k,
                    final_top_k |-> final_top_k,
                    out |-> r.out, looked_up |-> r.looked_up,
                    present |-> r.present,
                    before |-> instance, cache_before |-> cache,
                    count |-> stage_call.count + 1]
  /\ UNCHANGED <<search_vars, capacity, cache_call, used, applied, threads>>

\* TwoStageEntityDisambiguator.search
TwoStageSearch(query, threshold, retrieval_top_k, final_top_k) ==
  /\ pc = "idle"
  /\ stage_call.count < MaxSearches
  /\ StageReturned(query, threshold, retrieval_top_k, final_top_k,
                   two_stage_search(instance, capacity, cache, query,
                                    improved_search(model, query, entities,
                                                    entity_embeddings, threshold),
                                    retrieval_top_k, final_top_k))

StageNext ==
  \/ CreateEntityEmbeddings
  \/ \E query \in StageQueries, threshold \in StageThresholds,
        retrieval_top_k \in RetrievalTopKs, final_top_k \in FinalTopKs :
       TwoStageSearch(query, threshold, retrieval_top_k, final_top_k)

SpecStage == StageInit /\ [][StageNext]_vars

(***************************************************************************)
(* Two threads that search on one TwoStageEntityDisambiguator: the steps   *)
(* of LRUCache.get and LRUCache.put that each search takes on the shared   *)
(* OrderedDict (the searches pass should_rerank; the retrieval and the     *)
(* reranking between the steps are local to each thread)                   *)
(***************************************************************************)
Threads == {1, 2}

\* Most searches one thread makes
MaxThreadSearches == 1

\* The reranked list cached under a key
ListOf(key) == <<key>>

\* The items an instance of the given capacity holds after earlier searches
CachesAfterSearches(cap) ==
  LET lists == UNION {[1..n -> CacheKeys] : n \in 0..cap}
  IN {[i \in DOMAIN f |-> [key |-> f[i], value |-> ListOf(f[i])]] :
        f \in {g \in lists : \A i, j \in DOMAIN g : i # j => g[i] # g[j]}}

ThreadsInit ==
  /\ SearchUnused
  /\ NothingApplied
  /\ capacity \in 0..MaxCapacity
  /\ cache \in CachesAfterSearches(capacity)
  /\ cache_call = NoCacheCall
  /\ used = <<>>
  /\ instance = [retriever |-> "ImprovedEntityDisambiguator", reranker |-> TRUE,
                 use_cache |-> TRUE, metrics |-> NoMetrics]
  /\ stage_call = NoStageCall
  /\ threads = [t \in Threads |-> [pc |-> "idle", key |-> "", searches |-> 0]]

\* Thread t goes to `to`, and the shared items become `items`
Step(t, to, items) ==
  /\ threads' = [threads EXCEPT ![t].pc = to]
  /\ cache' = items
  /\ UNCHANGED <<search_vars, capacity, cache_call, used, applied, instance,
                 stage_call>>

\* search, line 180, and get, line 28: the search of thread t looks its key up
\* and get tests `key in self.cache`; an absent key is a miss
GetTest(t, key) ==
  /\ threads[t].pc = "idle"
  /\ threads[t].searches < MaxThreadSearches
  /\ threads' = [threads EXCEPT ![t] =
                   [pc |-> IF HasKey(cache, key) THEN "get_move" ELSE "put_test",
                    key |-> key, searches |-> @.searches + 1]]
  /\ UNCHANGED <<search_vars, cache_vars, applied, instance, stage_call>>

\* get, line 30: self.cache.move_to_end(key) raises KeyError for an absent key
GetMove(t) ==
  /\ threads[t].pc = "get_move"
  /\ IF HasKey(cache, threads[t].key)
       THEN Step(t, "get_read", move_to_end(cache, threads[t].key))
       ELSE Step(t, "failed", cache)

\* get, line 31: return self.cache[key] raises KeyError for an absent key; the
\* list read is not empty, so that the search returns it (lines 182-194)
GetRead(t) ==
  /\ threads[t].pc = "get_read"
  /\ IF HasKey(cache, threads[t].key)
       THEN Step(t, "idle", cache)
       ELSE Step(t, "failed", cache)

\* search, line 232, and put, line 35: after a miss the search reranks and puts
\* its list, and put tests `key in self.cache`
PutTest(t) ==
  /\ threads[t].pc = "put_test"
  /\ Step(t, IF HasKey(cache, threads[t].key) THEN "put_move" ELSE "put_set", cache)

\* put, line 36: self.cache.move_to_end(key) raises KeyError for an absent key
PutMove(t) ==
  /\ threads[t].pc = "put_move"
  /\ IF HasKey(cache, threads[t].key)
       THEN Step(t, "put_set", move_to_end(cache, threads[t].key))
       ELSE Step(t, "failed", cache)

\* put, line 37: self.cache[key] = value
PutSet(t) ==
  /\ threads[t].pc = "put_set"
  /\ Step(t, "put_len", set_item(cache, threads[t].key, ListOf(threads[t].key)))

\* put, line 39: if len(self.cache) > self.capacity
PutLen(t) ==
  /\ threads[t].pc = "put_len"
  /\ Step(t, IF Len(cache) > capacity THEN "put_pop" ELSE "idle", cache)

\* put, line 41: self.cache.popitem(last=False) raises KeyError on an empty dict
PutPop(t) ==
  /\ threads[t].pc = "put_pop"
  /\ IF cache # <<>>
       THEN Step(t, "idle", popitem_first(cache))
       ELSE Step(t, "failed", cache)

ThreadsNext ==
  \E t \in Threads :
     \/ \E key \in CacheKeys : GetTest(t, key)
     \/ GetMove(t)
     \/ GetRead(t)
     \/ PutTest(t)
     \/ PutMove(t)
     \/ PutSet(t)
     \/ PutLen(t)
     \/ PutPop(t)

SpecThreads == ThreadsInit /\ [][ThreadsNext]_vars

(***************************************************************************)
(* Properties of the searches                                              *)
(***************************************************************************)
\* The default threshold of search
DefaultThreshold == <<1, 2>>

\* An ImprovedEntityDisambiguator.search has just returned
ImprovedReturned == pc = "returned" /\ call.kind = "improved"

\* The ids of a result list, in order
Ids(rows) == [i \in 1..Len(rows) |-> rows[i].id]

\* The position in the caller's list of the entity with this id
PositionOf(id) == CHOOSE i \in 1..Len(entities) : entities[i].id = id

\* The result rows that carry the id of entity idx
RowsOf(idx) == {k \in 1..Len(results) : results[k].id = entities[idx].id}

\* C1: a query that equals an entity's descriptor, case aside, makes the improved
\* search at the default threshold return that entity with similarity exactly 1.0
\* and report match_type 'exact', however many tokens the descriptor has.
C1_ExactDescriptorScoresOne ==
  (ImprovedReturned /\ call.threshold = DefaultThreshold) =>
    \A idx \in 1..Len(entities) :
      Lower(call.query) = Lower(entities[idx].descriptor) =>
        /\ match_type = "exact"
        /\ \E k \in RowsOf(idx) : results[k].similarity = <<1, 1>>

\* The query is two tokens F and L separated by one space
TwoTokenQuery(query) ==
  /\ Len(Split(query)) = 2
  /\ query = Split(query)[1] \o <<" ">> \o Split(query)[2]

\* The head of the descriptor has first token F and last token L, case aside
HeadHasFirstAndLast(descriptor, query) ==
  LET tokens == Split(extract_name(descriptor))
  IN /\ Len(tokens) >= 2
     /\ Lower(tokens[1]) = Lower(Split(query)[1])
     /\ Lower(tokens[Len(tokens)]) = Lower(Split(query)[2])

\* C2: for a two-token query 'F L' and a list in which some head has first token F
\* and last token L, the improved search returns exactly the entities with such a
\* head: 1.0 for a head of just these two tokens, 0.95 name_without_middle for a
\* head with middle tokens, match_type 'exact', equal scores in entity order.
C2_FirstLastHeadsReturned ==
  (/\ ImprovedReturned
   /\ TwoTokenQuery(call.query)
   /\ \E idx \in 1..Len(entities) :
        HeadHasFirstAndLast(entities[idx].descriptor, call.query)) =>
    /\ match_type = "exact"
    /\ \A idx \in 1..Len(entities) :
         IF HeadHasFirstAndLast(entities[idx].descriptor, call.query)
           THEN \E k \in RowsOf(idx) :
                  IF Len(Split(extract_name(entities[idx].descriptor))) = 2
                    THEN results[k].similarity = <<1, 1>>
                    ELSE /\ results[k].similarity = <<19, 20>>
                         /\ results[k].match_type = "name_without_middle"
           ELSE RowsOf(idx) = {}
    /\ \A i, j \in 1..Len(results) :
         (i < j /\ results[i].similarity = results[j].similarity) =>
           PositionOf(results[i].id) < PositionOf(results[j].id)

\* The query is one token and equals the first name of entity idx, case aside
FirstNameQuery(idx) ==
  /\ Len(Split(call.query)) = 1
  /\ Lower(call.query) = Lower(entity_embeddings.name_parts[idx].first)

\* What C3 and its amendment promise of entity idx
FirstNameFound(idx) ==
  /\ \E k \in RowsOf(idx) : RatGE(results[k].similarity, <<19, 20>>)
  /\ match_type = IF Len(results) > 1 THEN "partial" ELSE "exact"

\* C3 as stated: a one-token query of any length that equals an entity's first
\* name, case aside, returns that entity with similarity at least 0.95, and the
\* match_type is 'exact' for one result and 'partial' for more.
C3_FirstNameAnyLength ==
  (ImprovedReturned /\ call.threshold = DefaultThreshold) =>
    \A idx \in 1..Len(entities) : FirstNameQuery(idx) => FirstNameFound(idx)

\* C3 amended: the same for a one-token query of two or more characters; a
\* one-character query is matched against the initials instead.
C3_FirstNameTwoOrMoreChars ==
  (ImprovedReturned /\ call.threshold = DefaultThreshold /\ Len(call.query) >= 2) =>
    \A idx \in 1..Len(entities) : FirstNameQuery(idx) => FirstNameFound(idx)

C3_Witness ==
  /\ ImprovedReturned /\ call.threshold = DefaultThreshold /\ Len(call.query) >= 2
  /\ \E idx \in 1..Len(entities) : FirstNameQuery(idx) /\ FirstNameFound(idx)
  /\ match_type = "partial"

\* The ranked ids the improved search returns for this query on the current list
RankedIds(query) ==
  Ids(improved_search(model, query, entities, entity_embeddings,
                      call.threshold).results)

\* C4: for a full-name query Q, search(Q), search(Q.upper()) and search(Q.lower())
\* return the same ranked sequence of entity ids, whatever the embedder.
C4_CaseInvariantRanking ==
  (ImprovedReturned /\ detect_query_type(call.query) = "full_name") =>
    /\ Ids(results) = RankedIds(Upper(call.query))
    /\ Ids(results) = RankedIds(Lower(call.query))

\* C5: two improved searches in a row with the same arguments return the same
\* result list and the same match_type, and leave the entity list and the index
\* as they were before the first of them.
C5_Idempotent ==
  ImprovedReturned =>
    /\ entities = prev.entities
    /\ entity_embeddings = given.entity_embeddings
    /\ call.count >= 2 => (results = prev.results /\ match_type = prev.match_type)

C5_Witness ==
  /\ ImprovedReturned /\ call.count = 2
  /\ Len(results) = 2
  /\ results = prev.results

\* C6: after any sequence of searches of the three disambiguators, every entity
\* record of the caller's list has the keys and values it was given with.
C6_EntitiesNeverMutated == entities = given.entities

\* C7: every result list of the improved search is in non-increasing order of
\* similarity, and results of equal similarity are in the order of their
\* entities in the caller's list.
C7_SortedStable ==
  ImprovedReturned =>
    \A i, j \in 1..Len(results) :
      i < j =>
        /\ RatGE(results[i].similarity, results[j].similarity)
        /\ results[i].similarity = results[j].similarity =>
             PositionOf(results[i].id) < PositionOf(results[j].id)

\* Two results of equal similarity, in the order of their entities
C7_Witness ==
  /\ ImprovedReturned
  /\ Len(results) = 2
  /\ results[1].similarity = results[2].similarity
  /\ PositionOf(results[1].id) < PositionOf(results[2].id)

\* C8: over an empty entity list the improved search returns an empty result list
\* with match_type 'ambiguous', for a one-token query as for any other.
C8_EmptyListAmbiguous ==
  (ImprovedReturned /\ entities = <<>>) =>
    (results = <<>> /\ match_type = "ambiguous")

\* The fuzzy ratio of the query and the full name of entity idx
FuzzyRatio(idx) ==
  fuzzy_match_score(call.query, entity_embeddings.name_parts[idx].full)

\* The fuzzy pass kept entity idx
InFuzzyPass(idx) ==
  \E k \in 1..Len(locals.fuzzy_matches) :
    locals.fuzzy_matches[k].id = entities[idx].id

\* C9: the fuzzy pass of the improved search includes an entity if and only if
\* the ratio of the query and its full name is at least 0.85: exactly 0.85 is in,
\* anything smaller is out.
C9_FuzzyBoundaryInclusive ==
  (ImprovedReturned /\ locals.branch = "combined") =>
    \A idx \in 1..Len(entities) : InFuzzyPass(idx) <=> RatGE(FuzzyRatio(idx), <<17, 20>>)

\* An entity at exactly 0.85 kept, beside one of a smaller ratio that was dropped
C9_Witness ==
  /\ ImprovedReturned /\ locals.branch = "combined"
  /\ \E idx \in 1..Len(entities) : FuzzyRatio(idx) = <<17, 20>> /\ InFuzzyPass(idx)
  /\ \E idx \in 1..Len(entities) :
       ~RatGE(FuzzyRatio(idx), <<17, 20>>) /\ ~InFuzzyPass(idx)

\* The similarities the exact pass assigns
ExactScores == {<<1, 1>>, <<49, 50>>, <<24, 25>>, <<19, 20>>}

\* Every row of the exact pass carries one of the exact scores
ExactPassScores ==
  \A k \in 1..Len(locals.exact_matches) :
    locals.exact_matches[k].similarity \in ExactScores

MergedList ==
  IF call.kind = "baseline"
    THEN baseline_matches(entities,
                          baseline_similarities(encode(model, call.query),
                                                entities, entity_embeddings),
                          call.threshold)
  ELSE IF call.kind = "hybrid"
    THEN hybrid_combined_scores_of(model, call.query, entities, entity_embeddings,
                                   call.threshold, locals.fuzzy_matches)
  ELSE combined_scores_of(model, call.query, entities, entity_embeddings,
                          call.threshold, locals.fuzzy_matches)

\* One row of at least 0.85, or a top row of at least 0.85 that exceeds the
\* runner-up by more than 0.10
Dominant(rows) ==
  /\ Len(rows) >= 1
  /\ RatGE(rows[1].similarity, <<17, 20>>)
  /\ \/ Len(rows) = 1
     \/ RatGT(RatSub(rows[1].similarity, rows[2].similarity), <<1, 10>>)

\* A search has returned from its merged list: the baseline, the hybrid past its
\* exact pass, the improved search past its exact pass
ReachedMergedList ==
  /\ pc = "returned"
  /\ \/ call.kind = "baseline"
     \/ call.kind \in {"hybrid", "improved"} /\ locals.branch = "combined"

\* C11: a search that reaches its merged, thresholded, sorted list returns only
\* the top result with match_type 'exact' if one result of at least 0.85 remains
\* or the top result is at least 0.85 and exceeds the runner-up by more than 0.10,
\* and reports 'ambiguous' in every other case.
C11_CollapseToDominant ==
  ReachedMergedList =>
    IF Dominant(MergedList)
      THEN results = <<MergedList[1]>> /\ match_type = "exact"
      ELSE match_type = "ambiguous"


\* The keys of a cache's items
KeysOf(items) == {items[i].key : i \in 1..Len(items)}

\* C12: a cache built with capacity C >= 0 holds at most C entries after any
\* sequence of get and put.
C12_CapacityBound == Len(cache) <= capacity

\* A full cache that has just evicted on a put
C12_Witness ==
  /\ cache_call.op = "put"
  /\ capacity = MaxCapacity
  /\ Len(cache_call.before) = capacity
  /\ ~HasKey(cache_call.before, cache_call.key)
  /\ Len(cache) = capacity

\* The place of a key in the order of last use
UsePosition(key) == CHOOSE i \in 1..Len(used) : used[i] = key

\* The last call was a put of a key the cache did not hold, into a full cache
OverflowingPut ==
  /\ cache_call.op = "put"
  /\ ~HasKey(cache_call.before, cache_call.key)
  /\ Len(cache_call.before) + 1 > capacity

\* The last call was a put of a key the cache held
PutOfPresentKey ==
  cache_call.op = "put" /\ HasKey(cache_call.before, cache_call.key)

\* The last call was a get of a key the cache held
GetHit == cache_call.op = "get" /\ HasKey(cache_call.before, cache_call.key)

\* C13: a put of a new key that overflows the capacity evicts exactly the entry
\* whose last use is the oldest among the entries held; a get that hits and a put
\* of a present key make the key the most recently used; a put of a present key
\* replaces its value and evicts nothing.
C13_EvictsLeastRecentlyUsed ==
  /\ OverflowingPut =>
       LET held == KeysOf(cache_call.before) \cup {cache_call.key}
           evicted == held \ KeysOf(cache)
       IN /\ Cardinality(evicted) = 1
          /\ KeysOf(cache) \subseteq held
          /\ \A e \in evicted, h \in held : UsePosition(e) <= UsePosition(h)
  /\ (GetHit \/ PutOfPresentKey) =>
       /\ KeysOf(cache) = KeysOf(cache_call.before)
       /\ cache[Len(cache)].key = cache_call.key
  /\ PutOfPresentKey => ValueOf(cache, cache_call.key) = cache_call.value
  /\ GetHit =>
       /\ cache_call.returned = ValueOf(cache_call.before, cache_call.key)
       /\ \A k \in KeysOf(cache) : ValueOf(cache, k) = ValueOf(cache_call.before, k)
  /\ \A i, j \in 1..Len(cache) :
       i < j => UsePosition(cache[i].key) < UsePosition(cache[j].key)

\* A put into a full cache of two: the entry used longest ago leaves, the
\* other one stays
C13_Witness ==
  /\ OverflowingPut
  /\ capacity = 2
  /\ Len(cache_call.before) = 2
  /\ cache_call.before[1].key = "k2"
  /\ cache_call.before[2].key = "k1"
  /\ ~HasKey(cache, "k2")
  /\ HasKey(cache, "k1")


\* C15: fuzzy_match_score is symmetric: fuzzy_match_score(a, b) equals
\* fuzzy_match_score(b, a) for all strings a and b.
C15_FuzzySymmetric ==
  (applied.fn = "fuzzy_match_score" /\ applied.done) =>
    applied.value = fuzzy_match_score(applied.args[2], applied.args[1])


\* should_rerank has returned for a disambiguator that has a reranker
RerankDecided ==
  applied.fn = "should_rerank" /\ applied.done /\ applied.args[1]

\* The candidates and the match type should_rerank was given
Candidates == applied.args[2]
GivenMatchType == applied.args[3]

\* The similarities of the first five candidates, or of all if there are fewer
TopFive == [i \in 1..(IF Len(Candidates) < 5 THEN Len(Candidates) ELSE 5) |->
              Candidates[i].similarity]

\* 25 times the variance of five numbers is 5 * sum of squares - square of sum
SumOfSquares(xs) == RatSum([i \in 1..Len(xs) |-> RatMul(xs[i], xs[i])])
SquareOfSum(xs) == RatMul(RatSum(xs), RatSum(xs))
ScaledVariance(xs) ==
  RatSub(RatMul(<<Len(xs), 1>>, SumOfSquares(xs)), SquareOfSum(xs))
VarianceAbove(xs, bound) ==
  RatGT(ScaledVariance(xs), RatMul(<<Len(xs) * Len(xs), 1>>, bound))
VarianceBelow(xs, bound) ==
  RatGT(RatMul(<<Len(xs) * Len(xs), 1>>, bound), ScaledVariance(xs))

\* C14 as stated: with a reranker, should_rerank returns False for fewer than 4
\* candidates, for a top similarity above 0.95, or for a variance of the top 5
\* similarities above 0.01, and True in every other case, whatever the match_type.
C14_RerankWhateverMatchType ==
  RerankDecided =>
    applied.value =
      ~(\/ Len(Candidates) < 4
        \/ RatGT(Candidates[1].similarity, <<19, 20>>)
        \/ VarianceAbove(TopFive, <<1, 100>>))

\* C14 amended: with a reranker, should_rerank returns False for fewer than 4
\* candidates or a top similarity above 0.95; otherwise True if there are at
\* least 5 candidates and the variance of the top 5 similarities is below 0.01;
\* otherwise True exactly when the match_type is 'ambiguous'.
C14_RerankSimilarOrAmbiguous ==
  RerankDecided =>
    applied.value =
      IF Len(Candidates) < 4 THEN FALSE
      ELSE IF RatGT(Candidates[1].similarity, <<19, 20>>) THEN FALSE
      ELSE IF Len(Candidates) >= 5 /\ VarianceBelow(TopFive, <<1, 100>>) THEN TRUE
      ELSE GivenMatchType = "ambiguous"

\* Five well-separated candidates reranked because the match type is ambiguous
C14_Witness ==
  /\ RerankDecided
  /\ Len(Candidates) >= 5
  /\ Candidates[1].similarity = <<19, 20>>
  /\ VarianceAbove(TopFive, <<1, 100>>)
  /\ GivenMatchType = "ambiguous"
  /\ applied.value = TRUE


\* A one-character query has just been answered by the improved search
OneCharReturned == ImprovedReturned /\ Len(call.query) = 1

\* The initials of entity idx, and the query's letter upper-cased
InitialsOf(idx) == entity_embeddings.name_parts[idx].initials
QueryLetter == Upper(call.query)[1]

\* The score C16 promises entity idx
PromisedInitialScore(idx) ==
  LET initials == InitialsOf(idx)
  IN IF initials # <<>> /\ (QueryLetter = initials[1]
                            \/ QueryLetter = initials[Len(initials)])
       THEN <<17, 20>>
     ELSE IF \E i \in 1..Len(initials) : QueryLetter = initials[i]
       THEN <<4, 5>>
     ELSE <<0, 1>>

\* C16: for a one-character query the improved search scores each entity 0.85
\* if the letter, upper-cased, is its first or its last initial, 0.80 if it is
\* only an interior initial and 0.0 otherwise; at a threshold of at most 0.80
\* the result is exactly the entities with a name part starting with the letter.
C16_InitialScores ==
  OneCharReturned =>
    /\ \A idx \in 1..Len(entities) :
         /\ RatGE(PromisedInitialScore(idx), call.threshold) <=> RowsOf(idx) # {}
         /\ \A k \in RowsOf(idx) : results[k].similarity = PromisedInitialScore(idx)
    /\ RatGE(<<4, 5>>, call.threshold) =>
         \A idx \in 1..Len(entities) :
           RowsOf(idx) # {} <=>
             \E i \in 1..Len(InitialsOf(idx)) : QueryLetter = InitialsOf(idx)[i]


\* detect_query_type has classified a query
Classified == applied.fn = "detect_query_type" /\ applied.done
ClassifiedQuery == applied.args[1]

\* The whitespace tokens of a text: each starts after a space or at the start
TokenStarts(text) ==
  {i \in 1..Len(text) : text[i] # " " /\ (i = 1 \/ text[i - 1] = " ")}
TokenAt(text, i) ==
  LET stop == CHOOSE j \in i..Len(text) :
                /\ \A k \in i..j : text[k] # " "
                /\ (j = Len(text) \/ text[j + 1] = " ")
  IN SubSeq(text, i, stop)

\* A token that starts with an upper-case letter, or has a lower-case letter and
\* no upper-case one
NameLikeToken(token) ==
  \/ IsUpperChar(token[1])
  \/ /\ \E i \in 1..Len(token) : IsLowerChar(token[i])
     /\ \A i \in 1..Len(token) : ~IsUpperChar(token[i])

TwoNameLikeTokens(text) ==
  /\ Cardinality(TokenStarts(text)) = 2
  /\ \A i \in TokenStarts(text) : NameLikeToken(TokenAt(text, i))

\* C17 as stated: a query of 0 or 1 whitespace tokens is classified as the
\* partial-name type, a query of exactly 2 tokens that are each lower-case or
\* start with an upper-case letter as full_name, every other query as semantic.
C17_NoOrOneTokenIsPartial ==
  Classified =>
    applied.value =
      IF Cardinality(TokenStarts(ClassifiedQuery)) <= 1 THEN "partial_name"
      ELSE IF TwoNameLikeTokens(ClassifiedQuery) THEN "full_name"
      ELSE "semantic"

\* C17 amended: a query of exactly 1 whitespace token is classified as the
\* partial-name type, a query of exactly 2 tokens that each start with an
\* upper-case letter or have a lower-case letter and no upper-case one as
\* full_name, and every other query, the one without tokens included, as semantic.
C17_OneTokenIsPartial ==
  Classified =>
    applied.value =
      IF Cardinality(TokenStarts(ClassifiedQuery)) = 1 THEN "partial_name"
      ELSE IF TwoNameLikeTokens(ClassifiedQuery) THEN "full_name"
      ELSE "semantic"

\* A query of spaces only has been classified as semantic
C17_Witness ==
  /\ Classified
  /\ ClassifiedQuery # <<>>
  /\ TokenStarts(ClassifiedQuery) = {}
  /\ applied.value = "semantic"


\* A one-word query of more than one character has just been answered
LadderReturned ==
  ImprovedReturned /\ Len(Split(call.query)) = 1 /\ Len(call.query) > 1

\* The name tokens of entity idx, lower-cased
NameTokens(idx) == LowerAll(Split(extract_name(entities[idx].descriptor)))

\* The cosine of the query to the embedding of a name token of entity idx
CosineToToken(idx, k) ==
  cosine_similarity(encode(model, call.query),
                    encode(model, Split(extract_name(entities[idx].descriptor))[k]))

\* The first applicable step of the ladder for entity idx
LadderStep(idx) ==
  LET tokens == NameTokens(idx)
      q == Lower(call.query)
  IN IF tokens # <<>> /\ q = tokens[1]
       THEN [score |-> <<19, 20>>, match_type |-> "exact_first_name"]
     ELSE IF Len(tokens) > 1 /\ q = tokens[Len(tokens)]
       THEN [score |-> <<19, 20>>, match_type |-> "exact_last_name"]
     ELSE IF \E k \in 1..Len(tokens) : q = tokens[k]
       THEN [score |-> <<9, 10>>, match_type |-> "exact_name_part"]
     ELSE [score |-> RatMul(<<7, 10>>,
                            RatMax(CosineToToken(idx, 1),
                                   CosineToToken(idx, Len(tokens)))),
           match_type |-> "semantic_name"]

\* C18: for a one-word query of more than one character the improved search gives
\* each entity the first applicable of 0.95 exact_first_name, 0.95 exact_last_name,
\* 0.90 exact_name_part and 0.7 times the larger cosine to its first and last name
\* (semantic_name), case aside; it returns exactly the entities whose score is at
\* least the threshold, with match_type 'partial' for more than one, else 'exact'.
C18_SingleTokenLadder ==
  LadderReturned =>
    /\ \A idx \in 1..Len(entities) :
         /\ RowsOf(idx) # {} <=> RatGE(LadderStep(idx).score, call.threshold)
         /\ \A k \in RowsOf(idx) :
              /\ results[k].similarity = LadderStep(idx).score
              /\ results[k].match_type = LadderStep(idx).match_type
    /\ Len(results) = Cardinality({idx \in 1..Len(entities) : RowsOf(idx) # {}})
    /\ match_type = IF Len(results) > 1 THEN "partial" ELSE "exact"

\* A middle name found at 0.90 next to an entity found by a positive semantic
\* score whose first-name and last-name cosines differ
C18_Witness ==
  /\ LadderReturned /\ match_type = "partial"
  /\ \E k \in 1..Len(results) : results[k].match_type = "exact_name_part"
  /\ \E idx \in 1..Len(entities) :
       /\ \E k \in RowsOf(idx) :
            /\ results[k].match_type = "semantic_name"
            /\ RatGT(results[k].similarity, <<0, 1>>)
       /\ CosineToToken(idx, 1) # CosineToToken(idx, Len(NameTokens(idx)))


\* check_name_match_with_initials has compared a query name with a candidate
NamesCompared == applied.fn = "check_name_match_with_initials" /\ applied.done
QueryTokens == Split(applied.args[1])
CandidateTokens == Split(applied.args[2])
MiddleOf(tokens) == SubSeq(tokens, 2, Len(tokens) - 1)

\* A query of more than 2 tokens whose first and last tokens are the candidate's,
\* case aside, and whose full name is not the candidate's
MiddleNameCase ==
  /\ NamesCompared
  /\ Len(QueryTokens) > 2 /\ Len(CandidateTokens) >= 2
  /\ Lower(QueryTokens[1]) = Lower(CandidateTokens[1])
  /\ Lower(QueryTokens[Len(QueryTokens)]) = Lower(CandidateTokens[Len(CandidateTokens)])
  /\ Lower(applied.args[1]) # Lower(applied.args[2])

\* A letter followed by a period
LetterAndPeriod(token) ==
  /\ Len(token) = 2
  /\ IsUpperChar(token[1]) \/ IsLowerChar(token[1])
  /\ token[2] = "."

\* Every token of `initials` is a letter and a period, and the letters are, in
\* order and in number, the first letters of `names`, case aside
InitialsOfNames(initials, names) ==
  /\ \A i \in 1..Len(initials) : LetterAndPeriod(initials[i])
  /\ Len(initials) = Len(names)
  /\ \A i \in 1..Len(initials) :
       Upper(<<initials[i][1]>>) = Upper(<<names[i][1]>>)

\* C19: for a query of more than 2 tokens whose first and last tokens are the
\* candidate's and whose full name differs from it, check_name_match_with_initials
\* gives 0.98 name_with_middle if the middle tokens are equal, case aside; else
\* 0.96 name_with_middle_initial if every query middle token is a letter and a
\* period and the letters are the first letters of the candidate's middle tokens;
\* else 0.96 name_matches_middle_initial in the mirrored case; otherwise no match,
\* so a candidate without middle tokens is never matched.
C19_MiddleNameRule ==
  MiddleNameCase =>
    applied.value =
      IF LowerAll(MiddleOf(QueryTokens)) = LowerAll(MiddleOf(CandidateTokens))
        THEN [is_match |-> TRUE, score |-> <<49, 50>>,
              match_type |-> "name_with_middle"]
      ELSE IF InitialsOfNames(MiddleOf(QueryTokens), MiddleOf(CandidateTokens))
        THEN [is_match |-> TRUE, score |-> <<24, 25>>,
              match_type |-> "name_with_middle_initial"]
      ELSE IF InitialsOfNames(MiddleOf(CandidateTokens), MiddleOf(QueryTokens))
        THEN [is_match |-> TRUE, score |-> <<24, 25>>,
              match_type |-> "name_matches_middle_initial"]
      ELSE [is_match |-> FALSE, score |-> <<0, 1>>, match_type |-> ""]


\* A query of two or more words has just been answered by the improved search
MultiTokenReturned == ImprovedReturned /\ Len(Split(call.query)) >= 2

\* Entity idx satisfies an exact rule: its descriptor is the query, case aside, or
\* its name matches the query's by a name rule
SatisfiesExactRule(idx) ==
  \/ Lower(call.query) = Lower(entities[idx].descriptor)
  \/ check_name_match_with_initials(
       extract_name_parts(call.query),
       extract_name_parts(entities[idx].descriptor)).is_match

\* C20: for a query of two or more words, whenever some entity satisfies an exact
\* rule the improved search returns exactly the entities that satisfy one, once
\* each, sorted by score descending, with match_type 'exact'; an entity that
\* matches only by fuzzy ratio or semantic similarity is not returned.
C20_ExactShortCircuits ==
  (MultiTokenReturned /\ \E idx \in 1..Len(entities) : SatisfiesExactRule(idx)) =>
    /\ \A idx \in 1..Len(entities) : RowsOf(idx) # {} <=> SatisfiesExactRule(idx)
    /\ Len(results) =
         Cardinality({idx \in 1..Len(entities) : SatisfiesExactRule(idx)})
    /\ \A i, j \in 1..Len(results) :
         i < j => RatGE(results[i].similarity, results[j].similarity)
    /\ \A k \in 1..Len(results) : results[k].similarity \in ExactScores
    /\ match_type = "exact"

\* One entity matches exactly and is returned; another, whose ratio to the query
\* would pass the fuzzy test at a similarity above the threshold, is not
C20_Witness ==
  /\ MultiTokenReturned
  /\ \E idx \in 1..Len(entities) : SatisfiesExactRule(idx) /\ RowsOf(idx) # {}
  /\ \E idx \in 1..Len(entities) :
       /\ ~SatisfiesExactRule(idx)
       /\ RatGE(FuzzyRatio(idx), <<17, 20>>)
       /\ RatGE(RatMul(FuzzyRatio(idx), <<19, 20>>), call.threshold)
       /\ RowsOf(idx) = {}


\* The improved search has just returned from its fuzzy/semantic branch
CombinedReturned == ImprovedReturned /\ locals.branch = "combined"

\* The cosine of two texts under the embedder in use
CosineOfTexts(a, b) == cosine_similarity(encode(model, a), encode(model, b))

\* The largest of the three cosines of entity idx: raw query to raw descriptor,
\* normalized query to normalized descriptor, raw query to name
LargestCosine(idx) ==
  RatMax(RatMax(CosineOfTexts(call.query, entities[idx].descriptor),
                CosineOfTexts(preprocess_text(call.query),
                              preprocess_text(entities[idx].descriptor))),
         CosineOfTexts(call.query, extract_name(entities[idx].descriptor)))

\* The final similarity C21 gives entity idx
MergedScore(idx) ==
  IF RatGE(FuzzyRatio(idx), <<17, 20>>)
    THEN RatMul(FuzzyRatio(idx), <<19, 20>>)
    ELSE LargestCosine(idx)

\* C21: in the fuzzy/semantic branch of the improved search an entity of the fuzzy
\* pass gets ratio x 0.95 even when its semantic score is higher, every other
\* entity the largest of its three cosines, and an entity is returned if and only
\* if that final similarity is at least the threshold.
C21_ScoreMerge ==
  CombinedReturned =>
    \A idx \in 1..Len(entities) :
      /\ RowsOf(idx) # {} <=> RatGE(MergedScore(idx), call.threshold)
      /\ \A k \in RowsOf(idx) : results[k].similarity = MergedScore(idx)

\* A fuzzy match whose largest cosine reaches the threshold is dropped because
\* its ratio x 0.95 does not
C21_Witness ==
  /\ CombinedReturned
  /\ \E idx \in 1..Len(entities) :
       /\ InFuzzyPass(idx)
       /\ RatGE(LargestCosine(idx), call.threshold)
       /\ ~RatGE(RatMul(FuzzyRatio(idx), <<19, 20>>), call.threshold)
       /\ RowsOf(idx) = {}


\* A HybridEntityDisambiguator.search has just returned
HybridReturned == pc = "returned" /\ call.kind = "hybrid"

\* C22: every result list the hybrid search returns, the list of its exact pass
\* (1.0 for descriptor equality, 0.95 for name equality) included, is in
\* non-increasing order of similarity.
C22_HybridSorted ==
  HybridReturned =>
    \A i, j \in 1..Len(results) :
      i < j => RatGE(results[i].similarity, results[j].similarity)


\* The similarities of the partial-name and initial rules
PartialRuleScores == {<<19, 20>>, <<9, 10>>, <<17, 20>>, <<4, 5>>}

\* Result k comes from embedding similarity alone: the semantic_name fallback of
\* the one-word branch, or an entity of the merge that no fuzzy match covers
FromEmbeddingAlone(k) ==
  \/ locals.branch = "partial_name" /\ results[k].match_type = "semantic_name"
  \/ /\ locals.branch = "combined"
     /\ \A f \in 1..Len(locals.fuzzy_matches) :
          locals.fuzzy_matches[f].id # results[k].id

\* C26: the scores of the improved search keep the order exact > fuzzy >
\* partial-name/initial > semantic: every exact similarity is above every fuzzy
\* one, every fuzzy one above each of 0.95, 0.90, 0.85 and 0.80, and each of these
\* above every similarity that comes from embedding similarity alone.
C26_PreferenceOrdering ==
  ImprovedReturned =>
    /\ \A f \in 1..Len(locals.fuzzy_matches) :
         /\ \A x \in ExactScores : RatGT(x, locals.fuzzy_matches[f].similarity)
         /\ \A p \in PartialRuleScores :
              RatGT(locals.fuzzy_matches[f].similarity, p)
    /\ \A k \in 1..Len(results) :
         FromEmbeddingAlone(k) =>
           \A p \in PartialRuleScores : RatGT(p, results[k].similarity)


\* C29: every result of the one-word branch and of the fuzzy/semantic branch of
\* the improved search has similarity at least the threshold; a result below the
\* threshold comes from the exact pass only, whose matches (1.0, 0.98, 0.96, 0.95)
\* are returned whatever the threshold is.
C29_ThresholdFloor ==
  ImprovedReturned =>
    /\ locals.branch \in {"partial_name", "combined"} =>
         \A k \in 1..Len(results) : RatGE(results[k].similarity, call.threshold)
    /\ locals.branch = "exact" =>
         /\ \A k \in 1..Len(results) : results[k].similarity \in ExactScores
         /\ \A idx \in 1..Len(entities) :
              SatisfiesExactRule(idx) => RowsOf(idx) # {}
    /\ locals.branch \in {"partial_name", "combined", "exact"}

\* An exact match of similarity 0.95 returned at a threshold of 0.96
C29_Witness ==
  /\ ImprovedReturned /\ locals.branch = "exact"
  /\ call.threshold = <<24, 25>>
  /\ \E k \in 1..Len(results) : results[k].similarity = <<19, 20>>


\* An EntityDisambiguator.search has just returned
BaselineReturned == pc = "returned" /\ call.kind = "baseline"

\* The cosine of the query and the descriptor of entity idx
DescriptorCosine(idx) == CosineOfTexts(call.query, entities[idx].descriptor)

\* No entity's cosine reaches the threshold
NoneReachesThreshold ==
  \A idx \in 1..Len(entities) : ~RatGE(DescriptorCosine(idx), call.threshold)

\* The descriptor of entity idx holds the query, case aside
HoldsQuery(idx) ==
  LET d == Lower(entities[idx].descriptor)
      q == Lower(call.query)
  IN \E i \in 1..(Len(d) - Len(q) + 1) : SubSeq(d, i, i + Len(q) - 1) = q

\* C30: the baseline search falls back to substrings only when no entity's cosine
\* reaches the threshold; it then returns every entity whose descriptor holds the
\* query, case aside, each with its cosine, sorted by it descending, as
\* 'ambiguous'; in every other case all results have similarity >= threshold.
C30_SubstringFallback ==
  BaselineReturned =>
    IF NoneReachesThreshold
      THEN /\ \A idx \in 1..Len(entities) :
                /\ RowsOf(idx) # {} <=> HoldsQuery(idx)
                /\ \A k \in RowsOf(idx) : results[k].similarity = DescriptorCosine(idx)
           /\ Len(results) = Cardinality({idx \in 1..Len(entities) : HoldsQuery(idx)})
           /\ \A i, j \in 1..Len(results) :
                i < j => RatGE(results[i].similarity, results[j].similarity)
           /\ match_type = "ambiguous"
           /\ locals.branch = "substring"
      ELSE /\ \A k \in 1..Len(results) :
                RatGE(results[k].similarity, call.threshold)
           /\ locals.branch # "substring"

\* The fallback returns two entities, the later one of the list first because its
\* cosine is larger
C30_Witness ==
  /\ BaselineReturned /\ NoneReachesThreshold /\ Len(results) = 2
  /\ RatGT(results[1].similarity, results[2].similarity)
  /\ PositionOf(results[1].id) > PositionOf(results[2].id)


\* A TwoStageEntityDisambiguator.search has returned
StageSearched == stage_call.count > 0

\* The last two-stage search returned reranked results
Reranked == StageSearched /\ stage_call.out.used_reranker

\* What the retriever returned to the last two-stage search, cut to retrieval_top_k
RetrievedByStage ==
  Slice(improved_search(model, stage_call.query, entities, entity_embeddings,
                        stage_call.threshold).results,
        stage_call.retrieval_top_k)

\* The retriever's row for the entity of a returned row
RetrievedRow(rows, row) == rows[CHOOSE i \in 1..Len(rows) : rows[i].id = row.id]

\* 0.6 x the retrieval score + 0.4 x the rerank score of a returned row
PromisedBlend(query, rows, row) ==
  RatAdd(RatMul(<<3, 5>>, RetrievedRow(rows, row).similarity),
         RatMul(<<2, 5>>, rerank_score(compute_features(query, row.descriptor))))

\* The returned rows carry the blended score
BlendedScores(query, rows, returned) ==
  \A i \in 1..Len(returned) :
     returned[i].similarity = PromisedBlend(query, rows, returned[i])

\* C25: when the two-stage search reranks, each returned result's similarity is
\* 0.6 x its retrieval score + 0.4 x its rerank score, and the returned results
\* are in non-increasing order of that similarity.
C25_BlendedAndSorted ==
  Reranked =>
    /\ BlendedScores(stage_call.query, RetrievedByStage, stage_call.out.results)
    /\ \A i, j \in 1..Len(stage_call.out.results) :
         i < j => RatGE(stage_call.out.results[i].similarity,
                        stage_call.out.results[j].similarity)

\* The part of C25 about the blend alone
C25_BlendOnly ==
  Reranked =>
    BlendedScores(stage_call.query, RetrievedByStage, stage_call.out.results)


\* The last two-stage search returned what the cache held
ServedFromCache == StageSearched /\ stage_call.out.from_cache = "True"

\* What the last two-stage search returns on an instance with use_cache=False
WithoutCache ==
  two_stage_search([stage_call.before EXCEPT !.use_cache = FALSE], 0, <<>>,
                   stage_call.query,
                   improved_search(model, stage_call.query, entities,
                                   entity_embeddings, stage_call.threshold),
                   stage_call.retrieval_top_k, stage_call.final_top_k).out

\* C27: the result list returned by a two-stage search served from the cache
\* equals the result list the same call returns on an instance with
\* use_cache=False, whatever searches went before it on the instance.
C27_CacheTransparent ==
  ServedFromCache => stage_call.out.results = WithoutCache.results


\* C23 as first stated: apart from the cache contents and their recency order,
\* every field of the instance is the same after a two-stage search as before it.
C23_OnlyCacheChanges ==
  StageSearched => instance = stage_call.before

\* C23: the LRU cache and the metrics are the only state of the instance that a
\* two-stage search changes: its retriever, its reranker and its use_cache flag
\* are the same after the search as before it.
C23_OnlyCacheAndMetricsChange ==
  StageSearched =>
    [instance EXCEPT !.metrics = stage_call.before.metrics] = stage_call.before

\* A two-stage search changed both the cache and the metrics
C23_Witness ==
  /\ StageSearched
  /\ cache # stage_call.cache_before
  /\ instance.metrics # stage_call.before.metrics


\* The last two-stage search ran on an instance that uses its cache
SearchedWithCache == StageSearched /\ stage_call.before.use_cache

\* The cache held the key of the last two-stage search when the search looked it up
KeyPresentAtLookup ==
  /\ stage_call.out.used_reranker
  /\ HasKey(stage_call.cache_before, cache_key(stage_call.query, RetrievedByStage))

\* The last two-stage search was counted as a hit
CountedAsHit ==
  instance.metrics.cache_hits = stage_call.before.metrics.cache_hits + 1

\* The counters and timing lists after the searches made so far
CountsAgree(metrics, before, passed) ==
  /\ metrics.total_searches = stage_call.count
  /\ Len(metrics.retrieval_time) = stage_call.count
  /\ metrics.cache_hits + metrics.cache_misses = Len(metrics.rerank_time)
  /\ Len(metrics.rerank_time) <= metrics.total_searches
  /\ metrics.cache_hits >= before.cache_hits
  /\ metrics.cache_misses >= before.cache_misses
  /\ Len(metrics.rerank_time) = Len(before.rerank_time) + (IF passed THEN 1 ELSE 0)

\* C28: with use_cache=True, total_searches equals the number of calls and the
\* length of retrieval_time; a call that passes should_rerank adds exactly one to
\* cache_hits or to cache_misses and one entry to rerank_time, so that
\* cache_hits + cache_misses = len(rerank_time) <= total_searches; and a call is
\* counted as a hit exactly when its key is in the cache when it is looked up.
C28_MetricsBookkeeping ==
  SearchedWithCache =>
    /\ CountsAgree(instance.metrics, stage_call.before.metrics,
                   stage_call.out.used_reranker)
    /\ CountedAsHit <=> KeyPresentAtLookup

\* The part of C28 about the counters and the timing lists alone
C28_CountsOnly ==
  SearchedWithCache =>
    CountsAgree(instance.metrics, stage_call.before.metrics,
                stage_call.out.used_reranker)


\* A get or a put of some thread raised KeyError
SomeThreadFailed == \E t \in DOMAIN threads : threads[t].pc = "failed"

\* Every thread made a search, and every search returned
AllReturned ==
  /\ threads # <<>>
  /\ \A t \in DOMAIN threads : threads[t].pc = "idle" /\ threads[t].searches > 0

\* C24: when two searches on one instance run on separate threads and their
\* cache steps interleave, no get and no put fails, and the cache holds no more
\* than `capacity` entries once both searches have returned.
C24_CacheSerialized ==
  /\ ~SomeThreadFailed
  /\ AllReturned => Len(cache) <= capacity

\* The part of C24 about the number of entries alone
C24_WithinCapacity ==
  AllReturned => Len(cache) <= capacity

=============================================================================
